---- MODULE Spec2Model ----
(***************************************************************************)
(* State-machine model of the AstherusVault custody contract               *)
(* (src/contract.sol): token registry, validator registry, threshold       *)
(* signature verification, replay-protected withdrawals, fee accrual and   *)
(* the hourly circuit breaker.                                             *)
(*                                                                         *)
(* A reverted call leaves the storage untouched and is visible only in     *)
(* `last`, the receipt of the most recent call: for a withdrawal that      *)
(* reverts, the entry point, the id and the error; for a call that         *)
(* returns, also its arguments, what its events report and whether it      *)
(* repeats a request the breaker had deferred.                             *)
(***************************************************************************)
EXTENDS Integers, Sequences, FiniteSets, TLC

\* ------------------------------------------------------------------ bounds
MaxBlock == 1          \* blocks with calls after the deployment block
MaxCustody == 12       \* cap on the custody balance a deposit may build up
MaxSigs == 2           \* longest signature list handed to the verifier alone

\* ------------------------------------------------------- program constants
USD_DECIMALS == 8
HOUR == 3600
ZeroAddr == 0
NATIVE == "NATIVE"
ZeroCurrency == "0x0"
ZeroBytes32 == "0x00"
\* the zero bytes32 as a token-name hash (hashes are tagged tuples)
NoNameHash == << "bytes32", "0x00" >>

\* --------------------------------------------------------------- universes
Tokens == {"USDT", NATIVE}
Ids == {1, 2}
UserDigests == {"d1", "d2"}
Signers == {1, 2, 3}
Powers == {0, 1, 2}
\* what ecrecover yields for a signature made over another digest
Stranger == 4
\* consecutive blocks with calls are one hour apart
BlockSeconds == HOUR
DeployTime == 2 * HOUR
Buckets == (DeployTime \div HOUR) .. ((DeployTime + MaxBlock * BlockSeconds) \div HOUR)

NoToken ==
    [currency |-> ZeroCurrency, priceFeed |-> ZeroCurrency, price |-> 0,
     fixedPrice |-> FALSE, priceDecimals |-> 0, currencyDecimals |-> 0]

\* decimals() of the price feed
OracleDecimals == 6

Limits == {1000, 500}

\* validator sets the registry is called with
V3 == << [signer |-> 1, power |-> 1], [signer |-> 2, power |-> 1],
         [signer |-> 3, power |-> 1] >>
V2 == << [signer |-> 1, power |-> 3], [signer |-> 2, power |-> 1] >>
VUnordered == << [signer |-> 2, power |-> 1], [signer |-> 1, power |-> 1] >>
Entries == [signer : Signers, power : Powers]
\* every set of at most two entries in increasing signer order
OrderedSets ==
    {<< >>} \cup {<< e >> : e \in Entries}
            \cup {p \in {<< e1, e2 >> : e1 \in Entries, e2 \in Entries} :
                    p[1].signer < p[2].signer}
RegistrySets == OrderedSets \cup {V3, VUnordered}

\* --------------------------------------------------------------- variables
VARIABLES
    paused,                \* PausableUpgradeable._paused
    hourlyLimit,
    supportToken,          \* currency -> Token
    tokenHashMap,          \* currency -> name hash
    withdrawHistory,       \* id -> block.number
    userWithdrawHistory,   \* user digest -> block.number
    withdrawPerHours,      \* block.timestamp / 1 hours -> USD value
    availableValidators,   \* hash of validator set -> total power (absent = 0)
    fees,                  \* currency -> accrued fee
    custody,               \* currency -> balance held by the vault
    blockNumber,           \* block.number
    timestamp,             \* block.timestamp
    payouts,               \* history: id -> number of pushes made for it
    digestPayouts,         \* history: user digest -> number of pushes made for it
    deferred,              \* history: id -> the committee request the breaker deferred,
                           \*          while the id is unprocessed
    feesAccrued,           \* history: currency -> sum of the fees of the withdrawals paid out
    feesCollected,         \* history: currency -> sum of the amounts withdrawFee pushed
    last,                  \* the most recent call and its outcome
    status,                \* ReentrancyGuardUpgradeable._status
    inFlight,              \* the call that is waiting in the transfer adapter
    client                 \* the client script that is running, and where it stands

storage ==
    << paused, hourlyLimit, supportToken, tokenHashMap, withdrawHistory,
       userWithdrawHistory, withdrawPerHours, availableValidators, fees, custody >>
chain == << blockNumber, timestamp >>
history == << payouts, digestPayouts, deferred, feesAccrued, feesCollected >>
guard == << status, inFlight >>
vars == << storage, chain, history, last, guard, client >>

\* ------------------------------------------------------ re-entrancy guard
NOT_ENTERED == "NOT_ENTERED"
ENTERED == "ENTERED"
\* no call is waiting in the transfer adapter
NoFrame == [op |-> "none", token |-> ZeroCurrency, amount |-> 0, before |-> 0,
            saved |-> << >>]

\* no client script is running
NoClient ==
    [script |-> "none", pc |-> 0, outcome |-> "idle", slots |-> << >>,
     sent |-> << >>, confirmed |-> {}, simulated |-> {}, reported |-> {}]

\* ----------------------------------------------------------- call records
NoAction == [token |-> ZeroCurrency, amount |-> 0, fee |-> 0, receiver |-> ZeroCurrency]

\* what safeTransferFrom does for a deposit: it reverts (no allowance, no
\* balance) or the token delivers some amount to the vault
PullReverts == [ok |-> FALSE, delivered |-> 0]
Delivers(n) == [ok |-> TRUE, delivered |-> n]

NoCall ==
    [op |-> "initialize", err |-> "ok", auth |-> TRUE, id |-> 0,
     action |-> NoAction, validators |-> << >>, sigs |-> << >>,
     usd |-> 0, deferred |-> FALSE, userDigest |-> ZeroBytes32, value |-> 0,
     credited |-> 0, maxFee |-> 0, decimals |-> 0, tokenNameHash |-> NoNameHash,
     approved |-> FALSE, retried |-> FALSE, pull |-> PullReverts,
     justAdded |-> FALSE]

NoRequest == [action |-> NoAction, validators |-> << >>, sigs |-> << >>]

Call(op, err, auth) == [NoCall EXCEPT !.op = op, !.err = err, !.auth = auth]
Failed(op, err, auth, id) == [Call(op, err, auth) EXCEPT !.id = id]

RECURSIVE Pow10(_)
Pow10(n) == IF n = 0 THEN 1 ELSE 10 * Pow10(n - 1)

\* ------------------------------------------------------------ environment
CHAIN_ID == "chain"
VAULT == "vault"

\* keccak256(abi.encode(...)): injective, so a hash is modelled by the tuple
\* of the encoded fields
WithdrawDigest(id, action) ==
    << id, CHAIN_ID, VAULT, action.token, action.amount, action.fee, action.receiver >>

toEthSignedMessageHash(digest) == << "\\x19Ethereum Signed Message", digest >>

ValidatorHash(validators) == validators

\* a signature is the pair (key that signed, message hash it was made over);
\* a malformed one carries no key
Malformed == [signer |-> ZeroAddr, signed |-> << >>]
Sign(signer, digest) == [signer |-> signer, signed |-> toEthSignedMessageHash(digest)]

\* ECDSA.recover (OpenZeppelin 5, imported at line 13) reverts on a
\* signature that does not recover (wrong length, high s, ecrecover yields
\* zero); it never returns address(0)
InvalidSignature == "ECDSAInvalidSignature"
RecoverReverts(sig) == sig = Malformed

\* what ECDSA.recover returns when it returns: the signing key when the hash
\* is the signed one, an unrelated address otherwise
Recover(hash, sig) ==
    IF sig.signed = hash THEN sig.signer ELSE Stranger

\* -------------------------------------------------------- views of storage
PowerOf(hash) ==
    IF hash \in DOMAIN availableValidators THEN availableValidators[hash] ELSE 0

supportCurrency(currency) ==
    currency \in Tokens /\ supportToken[currency].currency # ZeroCurrency

TokenOf(currency) == IF currency \in Tokens THEN supportToken[currency] ELSE NoToken

amountUsd(currency, amount, oraclePrice) ==
    LET token == TokenOf(currency)
        price == IF token.fixedPrice THEN token.price ELSE oraclePrice
    IN  (price * amount * Pow10(USD_DECIMALS))
            \div Pow10(token.priceDecimals + token.currencyDecimals)

cursorOfDeployment(time) == DeployTime \div HOUR

cursorOf(time) == time \div HOUR

\* ----------------------------------------------- verifyValidatorSignature
ThresholdHalf(totalPower) == totalPower \div 2

Threshold(totalPower) == (totalPower * 2) \div 3

\* (a scan that looks at the validator under the cursor only)
ScanNextOnly(validators, recover, validatorIndex) ==
    IF validatorIndex < Len(validators)
    THEN [index |-> validatorIndex + 1,
          power |-> IF validators[validatorIndex + 1].signer = recover
                    THEN validators[validatorIndex + 1].power ELSE 0]
    ELSE [index |-> validatorIndex, power |-> 0]

\* (a scan that looks through the whole set for every signature and leaves
\* the cursor where it was)
ScanWholeSet(validators, recover, validatorIndex) ==
    IF \E k \in 1 .. Len(validators) : validators[k].signer = recover
    THEN [index |-> validatorIndex,
          power |-> validators[CHOOSE k \in 1 .. Len(validators) :
                                  validators[k].signer = recover].power]
    ELSE [index |-> validatorIndex, power |-> 0]

\* the inner while loop: advance validatorIndex until the recovered signer
\* is found or the list is exhausted
RECURSIVE ScanValidators(_, _, _)
ScanValidators(validators, recover, validatorIndex) ==
    IF validatorIndex < Len(validators)
    THEN IF validators[validatorIndex + 1].signer = recover
         THEN [index |-> validatorIndex + 1,
               power |-> validators[validatorIndex + 1].power]
         ELSE ScanValidators(validators, recover, validatorIndex + 1)
    ELSE [index |-> validatorIndex, power |-> 0]

\* the outer for loop over the signatures: [err, power], err the revert of
\* the recovery if one is reached
RECURSIVE MatchedPower(_, _, _, _, _, _)
MatchedPower(validators, validatorDigest, sigs, i, validatorIndex, power) ==
    IF i < Len(sigs) /\ validatorIndex < Len(validators)
    THEN IF RecoverReverts(sigs[i + 1])
         THEN [err |-> InvalidSignature, power |-> power]
         ELSE LET recover == Recover(validatorDigest, sigs[i + 1])
              IN  IF recover = ZeroAddr
                  THEN MatchedPower(validators, validatorDigest, sigs, i + 1,
                                    validatorIndex, power)
                  ELSE LET hit == ScanValidators(validators, recover, validatorIndex)
                       IN  MatchedPower(validators, validatorDigest, sigs, i + 1,
                                        hit.index, power + hit.power)
    ELSE [err |-> "ok", power |-> power]

\* (a verifier that takes the total power from the claimed set itself)
verifyClaimedSet(validators, digest, sigs) ==
    LET totalPower == IF Len(validators) = 0 THEN 0
                      ELSE validators[1].power
                           + (IF Len(validators) > 1 THEN validators[2].power ELSE 0)
                           + (IF Len(validators) > 2 THEN validators[3].power ELSE 0)
        matched == MatchedPower(validators, toEthSignedMessageHash(digest), sigs, 0, 0, 0)
    IN  IF ~(totalPower > 0) THEN "validator illegal"
        ELSE IF matched.err # "ok" THEN matched.err
        ELSE IF ~(matched.power >= Threshold(totalPower)) THEN "validator signature illegal"
        ELSE "ok"

verifyValidatorSignature(validators, digest, sigs) ==
    LET totalPower == PowerOf(ValidatorHash(validators))
        matched == MatchedPower(validators, toEthSignedMessageHash(digest), sigs, 0, 0, 0)
    IN  IF ~(totalPower > 0) THEN "validator illegal"
        ELSE IF matched.err # "ok" THEN matched.err
        ELSE IF ~(matched.power >= Threshold(totalPower)) THEN "validator signature illegal"
        ELSE "ok"

\* ------------------------------------------------------------------- Init
\* the vault after construction and initialize(): every table empty, no
\* limit set, not paused
Init ==
    /\ paused = FALSE
    /\ hourlyLimit = 0
    /\ supportToken = [c \in Tokens |-> NoToken]
    /\ tokenHashMap = [c \in Tokens |-> NoNameHash]
    /\ withdrawHistory = [i \in Ids |-> 0]
    /\ userWithdrawHistory = [d \in UserDigests |-> 0]
    /\ withdrawPerHours = [b \in Buckets |-> 0]
    /\ availableValidators = [h \in {} |-> 0]
    /\ fees = [c \in Tokens |-> 0]
    /\ custody = [c \in Tokens |-> 0]
    /\ blockNumber = 1
    /\ timestamp = DeployTime
    /\ payouts = [i \in Ids |-> 0]
    /\ digestPayouts = [d \in UserDigests |-> 0]
    /\ deferred = [i \in Ids |-> NoRequest]
    /\ feesAccrued = [c \in Tokens |-> 0]
    /\ feesCollected = [c \in Tokens |-> 0]
    /\ last = NoCall
    /\ status = NOT_ENTERED
    /\ inFlight = NoFrame
    /\ client = NoClient

Unauthorized == "AccessControlUnauthorizedAccount"

\* ------------------------------------------------------------- the chain
Tick ==
    /\ blockNumber < 1 + MaxBlock
    /\ blockNumber' = blockNumber + 1
    /\ timestamp' = timestamp + BlockSeconds
    /\ last' = Call("tick", "ok", TRUE)
    /\ UNCHANGED << storage, history, guard, client >>

\* ------------------------------------------------------- pause / unpause
\* modifier nonReentrant: _nonReentrantBefore
Reentrant == "ReentrancyGuardReentrantCall"
nonReentrant == status # ENTERED

neverPaused == TRUE

whenNotPaused == ~paused

pause(auth) ==
    LET err == IF ~auth THEN Unauthorized
               ELSE IF ~whenNotPaused THEN "EnforcedPause"
               ELSE "ok"
    IN  /\ last' = Call("pause", err, auth)
        /\ paused' = IF err = "ok" THEN TRUE ELSE paused
        /\ UNCHANGED << hourlyLimit, supportToken, tokenHashMap, withdrawHistory,
                        userWithdrawHistory, withdrawPerHours, availableValidators,
                        fees, custody, chain, history, guard, client >>

unpause(auth) ==
    LET err == IF ~auth THEN Unauthorized
               ELSE IF ~paused THEN "ExpectedPause"
               ELSE "ok"
    IN  /\ last' = Call("unpause", err, auth)
        /\ paused' = IF err = "ok" THEN FALSE ELSE paused
        /\ UNCHANGED << hourlyLimit, supportToken, tokenHashMap, withdrawHistory,
                        userWithdrawHistory, withdrawPerHours, availableValidators,
                        fees, custody, chain, history, guard, client >>

updateHourlyLimit(newHourlyLimit, auth) ==
    LET err == IF ~auth THEN Unauthorized
               ELSE IF newHourlyLimit = 0 THEN "ZeroAmount"
               ELSE "ok"
    IN  /\ last' = [Call("updateHourlyLimit", err, auth) EXCEPT !.value = newHourlyLimit]
        /\ hourlyLimit' = IF err = "ok" THEN newHourlyLimit ELSE hourlyLimit
        /\ UNCHANGED << paused, supportToken, tokenHashMap, withdrawHistory,
                        userWithdrawHistory, withdrawPerHours, availableValidators,
                        fees, custody, chain, history, guard, client >>

\* ---------------------------------------------------- validator registry
\* the loop of addValidator: strictly increasing signers
\* (an ordering check that lets equal signers through)
RECURSIVE OrderedLoosely(_, _, _)
OrderedLoosely(validators, i, lastValidator) ==
    IF i < Len(validators)
    THEN /\ validators[i + 1].signer >= lastValidator
         /\ validators[i + 1].signer # ZeroAddr
         /\ OrderedLoosely(validators, i + 1, validators[i + 1].signer)
    ELSE TRUE

RECURSIVE Ordered(_, _, _)
Ordered(validators, i, lastValidator) ==
    IF i < Len(validators)
    THEN /\ validators[i + 1].signer > lastValidator
         /\ Ordered(validators, i + 1, validators[i + 1].signer)
    ELSE TRUE

RECURSIVE TotalPower(_, _)
TotalPower(validators, i) ==
    IF i < Len(validators)
    THEN validators[i + 1].power + TotalPower(validators, i + 1)
    ELSE 0

\* (a mapping write that never deletes)
SetPowerKeeping(hash, power) ==
    IF power = 0 THEN availableValidators
    ELSE [h \in DOMAIN availableValidators \cup {hash} |->
            IF h = hash THEN power ELSE availableValidators[h]]

\* mapping write: a zero value is the absent entry
SetPower(hash, power) ==
    IF power = 0
    THEN [h \in DOMAIN availableValidators \ {hash} |-> availableValidators[h]]
    ELSE [h \in DOMAIN availableValidators \cup {hash} |->
            IF h = hash THEN power ELSE availableValidators[h]]

addValidator(validators, auth) ==
    LET validatorHash == ValidatorHash(validators)
        err == IF ~auth THEN Unauthorized
               ELSE IF ~(PowerOf(validatorHash) = 0) THEN "already set"
               ELSE IF ~Ordered(validators, 0, ZeroAddr) THEN "validator not ordered"
               ELSE "ok"
    IN  /\ last' = [Call("addValidator", err, auth) EXCEPT !.validators = validators]
        /\ availableValidators' =
              IF err = "ok" THEN SetPower(validatorHash, TotalPower(validators, 0))
              ELSE availableValidators
        /\ UNCHANGED << paused, hourlyLimit, supportToken, tokenHashMap, withdrawHistory,
                        userWithdrawHistory, withdrawPerHours, fees, custody,
                        chain, history, guard, client >>

removeValidator(validators, auth) ==
    LET validatorHash == ValidatorHash(validators)
        err == IF ~auth THEN Unauthorized
               ELSE IF ~(PowerOf(validatorHash) # 0) THEN "not set"
               ELSE "ok"
    IN  /\ last' = [Call("removeValidator", err, auth) EXCEPT
                      !.validators = validators,
                      \* the call before this one added this very set
                      !.justAdded = /\ last.op = "addValidator" /\ last.err = "ok"
                                    /\ last.validators = validators]
        /\ availableValidators' =
              IF err = "ok" THEN SetPower(validatorHash, 0) ELSE availableValidators
        /\ UNCHANGED << paused, hourlyLimit, supportToken, tokenHashMap, withdrawHistory,
                        userWithdrawHistory, withdrawPerHours, fees, custody,
                        chain, history, guard, client >>

\* -------------------------------------------------------- token registry
NameHash(tokenName) == << "keccak256", tokenName >>

\* (a registration that overwrites an existing descriptor)
addTokenErrOverwriting(currency, cfg, auth) ==
    IF ~auth THEN Unauthorized
    ELSE IF currency = ZeroCurrency THEN "ZeroAddress"
    ELSE IF ~cfg.fixedPrice /\ cfg.priceFeed = ZeroCurrency THEN "ZeroAddress"
    ELSE IF ~cfg.fixedPrice /\ OracleDecimals # cfg.priceDecimals
         THEN "PriceDecimalsMismatch"
    ELSE "ok"

\* addToken (6 parameters); a revert after the first writes undoes them
addTokenErr(currency, cfg, auth) ==
    IF ~auth THEN Unauthorized
    ELSE IF currency = ZeroCurrency THEN "ZeroAddress"
    ELSE IF TokenOf(currency).currency # ZeroCurrency THEN "TokenAlreadyExist"
    ELSE IF ~cfg.fixedPrice /\ cfg.priceFeed = ZeroCurrency THEN "ZeroAddress"
    ELSE IF ~cfg.fixedPrice /\ OracleDecimals # cfg.priceDecimals
         THEN "PriceDecimalsMismatch"
    ELSE "ok"

AddedToken(currency, cfg) ==
    [currency |-> currency,
     priceFeed |-> IF cfg.fixedPrice THEN ZeroCurrency ELSE cfg.priceFeed,
     price |-> IF cfg.fixedPrice THEN cfg.price ELSE 0,
     fixedPrice |-> cfg.fixedPrice,
     priceDecimals |-> cfg.priceDecimals,
     currencyDecimals |-> cfg.currencyDecimals]

addToken(currency, cfg, auth) ==
    LET err == addTokenErr(currency, cfg, auth)
    IN  /\ last' = [Call("addToken", err, auth) EXCEPT !.action.token = currency]
        /\ supportToken' =
              IF err = "ok" THEN [supportToken EXCEPT ![currency] = AddedToken(currency, cfg)]
              ELSE supportToken
        /\ UNCHANGED << paused, hourlyLimit, tokenHashMap, withdrawHistory,
                        userWithdrawHistory, withdrawPerHours, availableValidators,
                        fees, custody, chain, history, guard, client >>

\* addToken (7 parameters): the 6-parameter one, then the name hash
addTokenNamed(currency, cfg, tokenName, auth) ==
    LET err == addTokenErr(currency, cfg, auth)
    IN  /\ last' = [Call("addTokenNamed", err, auth) EXCEPT !.action.token = currency]
        /\ supportToken' =
              IF err = "ok" THEN [supportToken EXCEPT ![currency] = AddedToken(currency, cfg)]
              ELSE supportToken
        /\ tokenHashMap' =
              IF err = "ok" THEN [tokenHashMap EXCEPT ![currency] = NameHash(tokenName)]
              ELSE tokenHashMap
        /\ UNCHANGED << paused, hourlyLimit, withdrawHistory,
                        userWithdrawHistory, withdrawPerHours, availableValidators,
                        fees, custody, chain, history, guard, client >>

removeToken(currency, auth) ==
    LET err == IF ~auth THEN Unauthorized
               ELSE IF currency = ZeroCurrency THEN "ZeroAddress"
               ELSE "ok"
    IN  /\ last' = [Call("removeToken", err, auth) EXCEPT !.action.token = currency]
        /\ supportToken' =
              IF err = "ok" THEN [supportToken EXCEPT ![currency] = NoToken]
              ELSE supportToken
        /\ UNCHANGED << paused, hourlyLimit, tokenHashMap, withdrawHistory,
                        userWithdrawHistory, withdrawPerHours, availableValidators,
                        fees, custody, chain, history, guard, client >>

setTokenHash(tokenAddress, tokenName, auth) ==
    LET err == IF ~auth THEN Unauthorized
               ELSE IF TokenOf(tokenAddress).currency = ZeroCurrency
                    THEN "CurrencyNotSupport"
               ELSE "ok"
    IN  /\ last' = [Call("setTokenHash", err, auth) EXCEPT !.action.token = tokenAddress]
        /\ tokenHashMap' =
              IF err = "ok" THEN [tokenHashMap EXCEPT ![tokenAddress] = NameHash(tokenName)]
              ELSE tokenHashMap
        /\ UNCHANGED << paused, hourlyLimit, supportToken, withdrawHistory,
                        userWithdrawHistory, withdrawPerHours, availableValidators,
                        fees, custody, chain, history, guard, client >>

\* --------------------------------------------------------------- deposits
\* The outcome of a deposit entry point, as a function of the pause flag and
\* the call: [err, credited, received].
NoDeposit(err) == [err |-> err, credited |-> 0, received |-> 0]

\* (deposit entry points that carry whenNotPaused)
PausableDepositOutcome(isPaused, currency, amount, pull) ==
    IF isPaused THEN NoDeposit("EnforcedPause")
    ELSE IF ~supportCurrency(currency) THEN NoDeposit("currency not support")
    ELSE IF amount = 0 THEN NoDeposit("ZeroAmount")
    ELSE IF currency = NATIVE THEN NoDeposit("call to non-contract")
    ELSE IF ~pull.ok THEN NoDeposit("SafeERC20FailedOperation")
    ELSE [err |-> "ok", credited |-> pull.delivered, received |-> pull.delivered]

\* (a deposit that credits the amount asked for)
NominalDepositOutcome(isPaused, currency, amount, pull) ==
    IF ~supportCurrency(currency) THEN NoDeposit("currency not support")
    ELSE IF amount = 0 THEN NoDeposit("ZeroAmount")
    ELSE IF currency = NATIVE THEN NoDeposit("call to non-contract")
    ELSE IF ~pull.ok THEN NoDeposit("SafeERC20FailedOperation")
    ELSE [err |-> "ok", credited |-> amount, received |-> pull.delivered]

DepositOutcome(isPaused, currency, amount, pull) ==
    IF ~nonReentrant THEN NoDeposit(Reentrant)
    ELSE IF ~supportCurrency(currency) THEN NoDeposit("currency not support")
    ELSE IF amount = 0 THEN NoDeposit("ZeroAmount")
    ELSE IF currency = NATIVE
         \* IERC20(NATIVE).balanceOf: a call to an address without code
         THEN NoDeposit("call to non-contract")
    ELSE IF ~pull.ok THEN NoDeposit("SafeERC20FailedOperation")
    ELSE [err |-> "ok", credited |-> (custody[currency] + pull.delivered) - custody[currency],
          received |-> pull.delivered]

DepositNativeOutcome(isPaused, value) ==
    IF ~nonReentrant THEN NoDeposit(Reentrant)
    ELSE IF ~supportCurrency(NATIVE) THEN NoDeposit("currency not support")
    ELSE IF ~(value > 0) THEN NoDeposit("msg.value must be greater than 0")
    ELSE [err |-> "ok", credited |-> value, received |-> value]

\* (a depositFor that tolerates short transfers, as deposit does)
TolerantDepositForOutcome(isPaused, currency, amount, value, pull, auth) ==
    IF ~auth THEN NoDeposit(Unauthorized)
    ELSE IF ~supportCurrency(currency) THEN NoDeposit("CurrencyNotSupport")
    ELSE IF amount = 0 THEN NoDeposit("ZeroAmount")
    ELSE IF currency = NATIVE
         THEN IF amount # value THEN NoDeposit("AmountIllegal")
              ELSE [err |-> "ok", credited |-> amount, received |-> value]
    ELSE IF value # 0 THEN NoDeposit("ValueNotZero")
    ELSE IF ~pull.ok THEN NoDeposit("SafeERC20FailedOperation")
    ELSE [err |-> "ok", credited |-> pull.delivered, received |-> pull.delivered]

DepositForOutcome(isPaused, currency, amount, value, pull, auth) ==
    IF ~auth THEN NoDeposit(Unauthorized)
    ELSE IF ~nonReentrant THEN NoDeposit(Reentrant)
    ELSE IF ~supportCurrency(currency) THEN NoDeposit("CurrencyNotSupport")
    ELSE IF amount = 0 THEN NoDeposit("ZeroAmount")
    ELSE IF currency = NATIVE
         THEN IF amount # value THEN NoDeposit("AmountIllegal")
              ELSE [err |-> "ok", credited |-> amount, received |-> value]
    ELSE IF value # 0 THEN NoDeposit("ValueNotZero")
    ELSE IF ~pull.ok THEN NoDeposit("SafeERC20FailedOperation")
    ELSE IF amount # (custody[currency] + pull.delivered) - custody[currency]
         THEN NoDeposit("AmountIllegal")
    ELSE [err |-> "ok", credited |-> amount, received |-> pull.delivered]

\* deposit, up to and including the transfer (the guard aside)
depositCall(currency, amount, pull) ==
    LET out == DepositOutcome(paused, currency, amount, pull)
    IN  /\ out.err = "ok" => custody[currency] + out.received <= MaxCustody
        /\ last' = [Call("deposit", out.err, TRUE) EXCEPT
                      !.action.token = currency, !.action.amount = amount,
                      !.credited = out.credited, !.pull = pull]
        /\ custody' = IF out.err = "ok"
                      THEN [custody EXCEPT ![currency] = @ + out.received]
                      ELSE custody
        /\ UNCHANGED << paused, hourlyLimit, supportToken, tokenHashMap, withdrawHistory,
                        userWithdrawHistory, withdrawPerHours, availableValidators,
                        fees, chain, history >>

deposit(currency, amount, pull) ==
    depositCall(currency, amount, pull) /\ UNCHANGED << guard, client >>

depositNative(value) ==
    LET out == DepositNativeOutcome(paused, value)
    IN  /\ out.err = "ok" => custody[NATIVE] + out.received <= MaxCustody
        /\ last' = [Call("depositNative", out.err, TRUE) EXCEPT
                      !.action.token = NATIVE, !.value = value,
                      !.credited = out.credited]
        /\ custody' = IF out.err = "ok"
                      THEN [custody EXCEPT ![NATIVE] = @ + out.received]
                      ELSE custody
        /\ UNCHANGED << paused, hourlyLimit, supportToken, tokenHashMap, withdrawHistory,
                        userWithdrawHistory, withdrawPerHours, availableValidators,
                        fees, chain, history, guard, client >>

depositFor(currency, amount, value, pull, auth) ==
    LET out == DepositForOutcome(paused, currency, amount, value, pull, auth)
    IN  /\ out.err = "ok" => custody[currency] + out.received <= MaxCustody
        /\ last' = [Call("depositFor", out.err, auth) EXCEPT
                      !.action.token = currency, !.action.amount = amount,
                      !.value = value, !.credited = out.credited, !.pull = pull]
        /\ custody' = IF out.err = "ok"
                      THEN [custody EXCEPT ![currency] = @ + out.received]
                      ELSE custody
        /\ UNCHANGED << paused, hourlyLimit, supportToken, tokenHashMap, withdrawHistory,
                        userWithdrawHistory, withdrawPerHours, availableValidators,
                        fees, chain, history, guard, client >>

\* -------------------------------------------------------------- checkLimit
LimitExceededAlone(amountUsd_) == amountUsd_ > hourlyLimit

LimitExceeded(amountUsd_) ==
    withdrawPerHours[cursorOf(timestamp)] + amountUsd_ > hourlyLimit

\* (a limiter without the zero-value check)
checkLimitAnyValue(currency, amount, oraclePrice) ==
    LET amountUsd_ == amountUsd(currency, amount, oraclePrice)
    IN  IF LimitExceeded(amountUsd_) THEN "pause" ELSE "admit"

\* "revert" (ZeroAmount), "pause" (returns false) or "admit" (returns true)
checkLimit(currency, amount, oraclePrice) ==
    LET amountUsd_ == amountUsd(currency, amount, oraclePrice)
    IN  IF amountUsd_ = 0 THEN "revert"
        ELSE IF LimitExceeded(amountUsd_) THEN "pause"
        ELSE "admit"

\* ------------------------------------------------- _transfer (fee variant)
\* the receiver's address, as _transfer sees it
\* (a push of the whole amount, the fee not held back)
remainGross(amount, fee) == amount

\* uint remain = amount - fee
remain(amount, fee) == amount - fee

\* (a push that goes through whatever the custody holds)
transferErrUnfunded(to, currency, amount, fee) ==
    IF to = ZeroCurrency THEN "ZeroAddress"
    ELSE IF fee > amount THEN "Panic(0x11)"
    ELSE "ok"

\* (a subtraction that is not checked for underflow)
transferErrWrapping(to, currency, amount, fee) ==
    IF to = ZeroCurrency THEN "ZeroAddress"
    ELSE IF custody[currency] < remain(amount, fee) THEN "InsufficientBalance"
    ELSE "ok"

transferErr(to, currency, amount, fee) ==
    IF to = ZeroCurrency THEN "ZeroAddress"
    ELSE IF fee > amount THEN "Panic(0x11)"
    ELSE IF custody[currency] < remain(amount, fee) THEN "InsufficientBalance"
    ELSE "ok"

\* ------------------------------------------ withdraw (committee-authorized)
IdAlwaysUnused(id) == TRUE

IdUnused(id) == withdrawHistory[id] = 0

withdrawErr(id, validators, action, sigs, auth, oraclePrice) ==
    IF ~whenNotPaused THEN "EnforcedPause"
    ELSE IF ~auth THEN Unauthorized
    ELSE IF ~nonReentrant THEN Reentrant
    ELSE IF ~IdUnused(id) THEN "already withdraw"
    ELSE IF ~supportCurrency(action.token) THEN "currency not support"
    ELSE LET verdict == verifyValidatorSignature(validators, WithdrawDigest(id, action), sigs)
             limit == checkLimit(action.token, action.amount, oraclePrice)
         IN  IF verdict # "ok" THEN verdict
             ELSE IF limit = "revert" THEN "ZeroAmount"
             ELSE IF limit = "pause" THEN "ok"
             ELSE transferErr(action.receiver, action.token, action.amount, action.fee)

\* (a withdrawal that consults the limit before the quorum is verified)
withdrawDeferredUnverified(id, validators, action, sigs, auth, oraclePrice) ==
    /\ whenNotPaused /\ auth /\ nonReentrant
    /\ IdUnused(id) /\ supportCurrency(action.token)
    /\ checkLimit(action.token, action.amount, oraclePrice) = "pause"

withdrawDeferred(id, validators, action, sigs, auth, oraclePrice) ==
    /\ withdrawErr(id, validators, action, sigs, auth, oraclePrice) = "ok"
    /\ checkLimit(action.token, action.amount, oraclePrice) = "pause"

\* withdraw, up to and including the transfer (the guard aside)
withdrawCall(id, validators, action, sigs, auth, oraclePrice) ==
    LET err == withdrawErr(id, validators, action, sigs, auth, oraclePrice)
        isDeferred == withdrawDeferred(id, validators, action, sigs, auth, oraclePrice)
        paid == err = "ok" /\ ~isDeferred
        amountUsd_ == IF supportCurrency(action.token)
                      THEN amountUsd(action.token, action.amount, oraclePrice)
                      ELSE 0
        cursor == cursorOf(timestamp)
    IN  /\ last' = IF err = "ok"
                   THEN [Call("withdraw", err, auth) EXCEPT
                           !.id = id, !.action = action, !.validators = validators,
                           !.sigs = sigs, !.usd = amountUsd_, !.deferred = isDeferred,
                           !.retried = (deferred[id] = [action |-> action,
                                                        validators |-> validators,
                                                        sigs |-> sigs])]
                   ELSE Failed("withdraw", err, auth, id)
        /\ paused' = IF isDeferred THEN TRUE ELSE paused
        /\ withdrawPerHours' =
              IF paid THEN [withdrawPerHours EXCEPT ![cursor] = @ + amountUsd_]
              ELSE withdrawPerHours
        /\ withdrawHistory' =
              IF paid THEN [withdrawHistory EXCEPT ![id] = blockNumber]
              ELSE withdrawHistory
        /\ fees' = IF paid THEN [fees EXCEPT ![action.token] = @ + action.fee] ELSE fees
        /\ custody' =
              IF paid THEN [custody EXCEPT ![action.token] = @ - remain(action.amount, action.fee)]
              ELSE custody
        /\ payouts' = IF paid THEN [payouts EXCEPT ![id] = @ + 1] ELSE payouts
        /\ deferred' =
              IF isDeferred
              THEN [deferred EXCEPT ![id] = [action |-> action, validators |-> validators,
                                             sigs |-> sigs]]
              ELSE IF paid THEN [deferred EXCEPT ![id] = NoRequest]
              ELSE deferred
        /\ feesAccrued' = IF paid THEN [feesAccrued EXCEPT ![action.token] = @ + action.fee]
                           ELSE feesAccrued
        /\ UNCHANGED << hourlyLimit, supportToken, tokenHashMap, userWithdrawHistory,
                        availableValidators, chain, digestPayouts, feesCollected >>

withdraw(id, validators, action, sigs, auth, oraclePrice) ==
    withdrawCall(id, validators, action, sigs, auth, oraclePrice) /\ UNCHANGED << guard, client >>

\* --------------------------------------------- withdraw (user-co-signed)
\* `request` is (userRequestInfo, businessInfo):
\*   [withdrawId, amount, fee, receiver, decimals, tokenNameHash]
\* `check` is the answer of WITHDRAW_VALIDATOR.withdrawCheck: it reverts, or
\* returns the digest of the user's request
CheckReverts == [ok |-> FALSE, userDigest |-> ZeroBytes32]
CheckReturns(d) == [ok |-> TRUE, userDigest |-> d]

DigestUnused(userDigest) == userWithdrawHistory[userDigest] = 0

\* variant: the fee is compared after the rate limiter has run
withdrawUserErrFeeLast(tokenAddress, realFee, request, check, auth, oraclePrice) ==
    IF ~whenNotPaused THEN "EnforcedPause"
    ELSE IF ~auth THEN Unauthorized
    ELSE IF ~nonReentrant THEN Reentrant
    ELSE IF ~IdUnused(request.withdrawId) THEN "AlreadyWithdraw"
    ELSE IF \/ TokenOf(tokenAddress).currency = ZeroCurrency
            \/ TokenOf(tokenAddress).currencyDecimals # request.decimals
         THEN "CurrencyNotSupport"
    ELSE IF tokenHashMap[tokenAddress] # request.tokenNameHash
         THEN "CurrencyNameNotSupport"
    ELSE LET limit == checkLimit(tokenAddress, request.amount, oraclePrice)
         IN  IF limit = "revert" THEN "ZeroAmount"
             ELSE IF limit = "pause" THEN "ok"
             ELSE IF realFee > request.fee THEN "FeeExceeds"
             ELSE IF ~check.ok THEN "WithdrawCheckFailed"
             ELSE IF ~DigestUnused(check.userDigest) THEN "UserAlreadyWithdraw"
             ELSE transferErr(request.receiver, tokenAddress, request.amount, realFee)

withdrawUserErr(tokenAddress, realFee, request, check, auth, oraclePrice) ==
    IF ~whenNotPaused THEN "EnforcedPause"
    ELSE IF ~auth THEN Unauthorized
    ELSE IF ~nonReentrant THEN Reentrant
    ELSE IF ~IdUnused(request.withdrawId) THEN "AlreadyWithdraw"
    ELSE IF \/ TokenOf(tokenAddress).currency = ZeroCurrency
            \/ TokenOf(tokenAddress).currencyDecimals # request.decimals
         THEN "CurrencyNotSupport"
    ELSE IF tokenHashMap[tokenAddress] # request.tokenNameHash
         THEN "CurrencyNameNotSupport"
    ELSE IF realFee > request.fee THEN "FeeExceeds"
    ELSE LET limit == checkLimit(tokenAddress, request.amount, oraclePrice)
         IN  IF limit = "revert" THEN "ZeroAmount"
             ELSE IF limit = "pause" THEN "ok"
             ELSE IF ~check.ok THEN "WithdrawCheckFailed"
             ELSE IF ~DigestUnused(check.userDigest) THEN "UserAlreadyWithdraw"
             ELSE transferErr(request.receiver, tokenAddress, request.amount, realFee)

withdrawUserDeferred(tokenAddress, realFee, request, check, auth, oraclePrice) ==
    /\ withdrawUserErr(tokenAddress, realFee, request, check, auth, oraclePrice) = "ok"
    /\ checkLimit(tokenAddress, request.amount, oraclePrice) = "pause"

withdrawUser(tokenAddress, realFee, request, check, auth, oraclePrice) ==
    LET err == withdrawUserErr(tokenAddress, realFee, request, check, auth, oraclePrice)
        isDeferred == withdrawUserDeferred(tokenAddress, realFee, request, check, auth,
                                           oraclePrice)
        paid == err = "ok" /\ ~isDeferred
        amountUsd_ == IF supportCurrency(tokenAddress)
                      THEN amountUsd(tokenAddress, request.amount, oraclePrice)
                      ELSE 0
        cursor == cursorOf(timestamp)
        id == request.withdrawId
    IN  /\ last' = IF err = "ok"
                   THEN [Call("withdrawUser", err, auth) EXCEPT
                           !.id = id,
                           !.action = [token |-> tokenAddress, amount |-> request.amount,
                                       fee |-> realFee, receiver |-> request.receiver],
                           !.usd = amountUsd_, !.deferred = isDeferred,
                           !.userDigest = check.userDigest, !.approved = check.ok,
                           !.maxFee = request.fee, !.decimals = request.decimals,
                           !.tokenNameHash = request.tokenNameHash]
                   ELSE [Failed("withdrawUser", err, auth, id) EXCEPT
                           !.userDigest = IF err = "UserAlreadyWithdraw"
                                          THEN check.userDigest ELSE ZeroBytes32]
        /\ paused' = IF isDeferred THEN TRUE ELSE paused
        /\ withdrawPerHours' =
              IF paid THEN [withdrawPerHours EXCEPT ![cursor] = @ + amountUsd_]
              ELSE withdrawPerHours
        /\ withdrawHistory' =
              IF paid THEN [withdrawHistory EXCEPT ![id] = blockNumber]
              ELSE withdrawHistory
        /\ userWithdrawHistory' =
              IF paid THEN [userWithdrawHistory EXCEPT ![check.userDigest] = blockNumber]
              ELSE userWithdrawHistory
        /\ fees' = IF paid THEN [fees EXCEPT ![tokenAddress] = @ + realFee] ELSE fees
        /\ custody' =
              IF paid THEN [custody EXCEPT ![tokenAddress] = @ - remain(request.amount, realFee)]
              ELSE custody
        /\ payouts' = IF paid THEN [payouts EXCEPT ![id] = @ + 1] ELSE payouts
        /\ digestPayouts' =
              IF paid THEN [digestPayouts EXCEPT ![check.userDigest] = @ + 1]
              ELSE digestPayouts
        /\ deferred' = IF paid THEN [deferred EXCEPT ![id] = NoRequest] ELSE deferred
        /\ feesAccrued' = IF paid THEN [feesAccrued EXCEPT ![tokenAddress] = @ + realFee]
                           ELSE feesAccrued
        /\ UNCHANGED << hourlyLimit, supportToken, tokenHashMap,
                        availableValidators, chain, feesCollected, guard, client >>

\* ---------------------------------------------------------- cancelWithdraw
cancelErrUnchecked(withdrawId, auth) == IF ~auth THEN Unauthorized ELSE "ok"

\* (a cancellation that carries whenNotPaused, as the withdrawals do)
cancelErrPausable(withdrawId, auth) ==
    IF ~whenNotPaused THEN "EnforcedPause"
    ELSE IF ~auth THEN Unauthorized
    ELSE IF withdrawHistory[withdrawId] # 0 THEN "AlreadyWithdraw"
    ELSE "ok"

cancelErr(withdrawId, auth) ==
    IF ~auth THEN Unauthorized
    ELSE IF withdrawHistory[withdrawId] # 0 THEN "AlreadyWithdraw"
    ELSE "ok"

cancelWithdraw(withdrawId, userDigest, auth) ==
    LET err == cancelErr(withdrawId, auth)
    IN  /\ last' = IF err = "ok"
                   THEN [Call("cancelWithdraw", err, auth) EXCEPT
                           !.id = withdrawId, !.userDigest = userDigest]
                   ELSE Failed("cancelWithdraw", err, auth, withdrawId)
        /\ withdrawHistory' =
              IF err = "ok" THEN [withdrawHistory EXCEPT ![withdrawId] = blockNumber]
              ELSE withdrawHistory
        /\ userWithdrawHistory' =
              IF err = "ok" /\ userDigest # ZeroBytes32
              THEN [userWithdrawHistory EXCEPT ![userDigest] = blockNumber]
              ELSE userWithdrawHistory
        /\ deferred' = IF err = "ok" THEN [deferred EXCEPT ![withdrawId] = NoRequest]
                        ELSE deferred
        /\ UNCHANGED << paused, hourlyLimit, supportToken, tokenHashMap,
                        withdrawPerHours, availableValidators, fees, custody,
                        chain, payouts, digestPayouts, feesAccrued, feesCollected, guard, client >>

\* ------------------------------------------------------------- withdrawFee
FeeOf(pool, token) == IF token \in Tokens THEN pool[token] ELSE 0
BalanceOf(bal, token) == IF token \in Tokens THEN bal[token] ELSE 0

\* (a fee push that asks for a registered currency)
transferPlainErrSupported(bal, to, currency, amount) ==
    IF to = ZeroCurrency THEN "ZeroAddress"
    ELSE IF ~supportCurrency(currency) THEN "currency not support"
    ELSE IF amount = 0 THEN "ZeroAmount"
    ELSE IF BalanceOf(bal, currency) < amount THEN "not enough currency balance"
    ELSE "ok"

\* _transfer (isNative variant)
transferPlainErr(bal, to, currency, amount) ==
    IF to = ZeroCurrency THEN "ZeroAddress"
    ELSE IF amount = 0 THEN "ZeroAmount"
    ELSE IF BalanceOf(bal, currency) < amount THEN "not enough currency balance"
    ELSE "ok"

\* (a collection that leaves the pool as it was)
DebitNothing(pool, token, amount) == pool

\* fees[token] -= amount
Debit(pool, token, amount) == [pool EXCEPT ![token] = @ - amount]

\* the loop of withdrawFee from index i on: [err, fees, custody]
RECURSIVE feeLoop(_, _, _, _, _, _)
feeLoop(tokens, amounts, receiver, i, pool, bal) ==
    IF i < Len(tokens)
    THEN LET token == tokens[i + 1]
             availableFee == FeeOf(pool, token)
             amount == IF availableFee < amounts[i + 1] THEN availableFee
                       ELSE amounts[i + 1]
             err == transferPlainErr(bal, receiver, token, amount)
         IN  IF err # "ok" THEN [err |-> err, fees |-> pool, custody |-> bal]
             ELSE feeLoop(tokens, amounts, receiver, i + 1,
                          Debit(pool, token, amount),
                          [bal EXCEPT ![token] = @ - amount])
    ELSE [err |-> "ok", fees |-> pool, custody |-> bal]

withdrawFee(tokens, amounts, receiver, auth) ==
    LET out == IF ~auth THEN [err |-> Unauthorized, fees |-> fees, custody |-> custody]
               ELSE IF Len(tokens) # Len(amounts)
                    THEN [err |-> "illegal num", fees |-> fees, custody |-> custody]
               ELSE feeLoop(tokens, amounts, receiver, 0, fees, custody)
    IN  /\ last' = [Call("withdrawFee", out.err, auth) EXCEPT
                      !.action.receiver = receiver,
                      !.action.token = IF Len(tokens) > 0 THEN tokens[1] ELSE ZeroCurrency,
                      !.action.amount = IF Len(amounts) > 0 THEN amounts[1] ELSE 0]
        /\ fees' = IF out.err = "ok" THEN out.fees ELSE fees
        /\ custody' = IF out.err = "ok" THEN out.custody ELSE custody
        \* what the pushes of the loop took out of the custody
        /\ feesCollected' = [c \in Tokens |-> feesCollected[c] + (custody[c] - custody'[c])]
        /\ UNCHANGED << paused, hourlyLimit, supportToken, tokenHashMap, withdrawHistory,
                        userWithdrawHistory, withdrawPerHours, availableValidators,
                        chain, payouts, digestPayouts, deferred, feesAccrued, guard, client >>

\* ------------------------------------------------- the calls of `Spec`
TokenName == "Tether USD"
ConfigA == [priceFeed |-> ZeroCurrency, price |-> 1, fixedPrice |-> TRUE,
            priceDecimals |-> 6, currencyDecimals |-> 0]

Act(token, amount, fee, receiver) ==
    [token |-> token, amount |-> amount, fee |-> fee, receiver |-> receiver]

\* signatures of the listed signers over the digest of (id, action)
SigsOf(signers, id, action) ==
    [k \in 1 .. Len(signers) |-> Sign(signers[k], WithdrawDigest(id, action))]

WithdrawActions ==
    { Act("USDT", 6, 0, "alice"), Act("USDT", 6, 2, "alice"), Act("USDT", 0, 0, "alice") }

\* (id, validators, action, signers, signed action, auth)
WithdrawCalls ==
    { << id, V2, a, << 1 >>, a, TRUE >> : id \in Ids, a \in WithdrawActions }
    \cup { << 1, V2, Act("USDT", 6, 0, "alice"), << 2 >>, Act("USDT", 6, 0, "alice"), TRUE >>,
           << 1, V3, Act("USDT", 6, 0, "alice"), << 1, 2, 3 >>, Act("USDT", 6, 0, "alice"), TRUE >>,
           << 1, V2, Act("USDT", 6, 0, "alice"), << 1 >>, Act("USDT", 6, 2, "alice"), TRUE >>,
           << 1, V2, Act("USDT", 6, 0, "alice"), << 1 >>, Act("USDT", 6, 0, "alice"), FALSE >> }

UserRequest(id, amount, fee, receiver, decimals, hash) ==
    [withdrawId |-> id, amount |-> amount, fee |-> fee, receiver |-> receiver,
     decimals |-> decimals, tokenNameHash |-> hash]

\* (token, realFee, request, check, auth)
UserCalls ==
    { << "USDT", 2, UserRequest(id, 6, 2, "alice", 0, NameHash(TokenName)),
         CheckReturns(d), TRUE >> : id \in Ids, d \in UserDigests }
    \cup { << "USDT", 2, UserRequest(1, 6, 2, "alice", 0, NameHash(TokenName)),
              CheckReverts, TRUE >>,
           << "USDT", 2, UserRequest(1, 6, 0, "alice", 0, NameHash(TokenName)),
              CheckReturns("d1"), TRUE >>,
           << "USDT", 2, UserRequest(1, 6, 2, "alice", 0, NameHash(TokenName)),
              CheckReturns("d1"), FALSE >> }

Next ==
    \/ Tick
    \/ \E auth \in BOOLEAN : pause(auth)
    \/ \E auth \in BOOLEAN : unpause(auth)
    \/ updateHourlyLimit(1000, TRUE)
    \/ addValidator(V2, TRUE)
    \/ addTokenNamed("USDT", ConfigA, TokenName, TRUE)
    \/ deposit("USDT", 6, Delivers(6))
    \/ \E c \in WithdrawCalls :
          withdraw(c[1], c[2], c[3], SigsOf(c[4], c[1], c[5]), c[6], 1)
    \/ \E c \in UserCalls : withdrawUser(c[1], c[2], c[3], c[4], c[5], 1)
    \/ \E id \in Ids, d \in {"d1", ZeroBytes32}, auth \in BOOLEAN :
          cancelWithdraw(id, d, auth)
    \/ withdrawFee(<< "USDT" >>, << 2 >>, "alice", TRUE)

Spec == Init /\ [][Next]_vars

WithdrawOf(c) == withdraw(c[1], c[2], c[3], SigsOf(c[4], c[1], c[5]), c[6], 1)

\* the rate limiter at work: set-up, committee withdrawals, limit changes,
\* unpause and the clock
NextLimit ==
    \/ Tick
    \/ \E auth \in BOOLEAN : unpause(auth)
    \/ \E l \in Limits : updateHourlyLimit(l, TRUE)
    \/ addValidator(V2, TRUE)
    \/ addTokenNamed("USDT", ConfigA, TokenName, TRUE)
    \/ deposit("USDT", 6, Delivers(6))
    \/ \E c \in WithdrawCalls : WithdrawOf(c)

SpecLimit == Init /\ [][NextLimit]_vars

\* ---------------------------------------- the verifier alone (SpecVerify)
\* the vault set up for withdrawals of USDT, the validator registry empty
InitFunded ==
    /\ paused = FALSE
    /\ hourlyLimit = 1000
    /\ supportToken = [c \in Tokens |->
                         IF c = "USDT" THEN AddedToken("USDT", ConfigA) ELSE NoToken]
    /\ tokenHashMap = [c \in Tokens |->
                         IF c = "USDT" THEN NameHash(TokenName) ELSE NoNameHash]
    /\ withdrawHistory = [i \in Ids |-> 0]
    /\ userWithdrawHistory = [d \in UserDigests |-> 0]
    /\ withdrawPerHours = [b \in Buckets |-> 0]
    /\ availableValidators = [h \in {} |-> 0]
    /\ fees = [c \in Tokens |-> 0]
    /\ custody = [c \in Tokens |-> IF c = "USDT" THEN 6 ELSE 0]
    /\ blockNumber = 1
    /\ timestamp = DeployTime
    /\ payouts = [i \in Ids |-> 0]
    /\ digestPayouts = [d \in UserDigests |-> 0]
    /\ deferred = [i \in Ids |-> NoRequest]
    /\ feesAccrued = [c \in Tokens |-> 0]
    /\ feesCollected = [c \in Tokens |-> 0]
    /\ last = NoCall
    /\ status = NOT_ENTERED
    /\ inFlight = NoFrame
    /\ client = NoClient

VerifyAction == Act("USDT", 6, 0, "alice")
OtherAction == Act("USDT", 6, 2, "alice")
VerifyDigest == WithdrawDigest(1, VerifyAction)

\* a signature of each signer over the digest, one made over another digest,
\* a malformed one
SigSymbols ==
    {Sign(v, VerifyDigest) : v \in Signers}
        \cup {Sign(1, WithdrawDigest(1, OtherAction)), Malformed}
SigLists == UNION {[1 .. n -> SigSymbols] : n \in 0 .. MaxSigs}

\* verifyValidatorSignature called on its own
verify(validators, sigs) ==
    /\ last' = [Call("verifyValidatorSignature",
                     verifyValidatorSignature(validators, VerifyDigest, sigs), TRUE)
                  EXCEPT !.validators = validators, !.sigs = sigs]
    /\ UNCHANGED << storage, chain, history, guard, client >>

VerifySigs(signers) == SigsOf(signers, 1, VerifyAction)
V11 == << [signer |-> 1, power |-> 1], [signer |-> 2, power |-> 1] >>
V22 == << [signer |-> 1, power |-> 2], [signer |-> 3, power |-> 2] >>
\* a single validator of power 1: (1 * 2) / 3 = 0
VSolo == << [signer |-> 1, power |-> 1] >>

\* (claimed set, signature list) pairs the verifier and the withdrawal are
\* called with
VerifyCalls ==
    { << V3, VerifySigs(<< 1, 2 >>) >>, << V3, VerifySigs(<< 2, 1 >>) >>,
      << V3, VerifySigs(<< 3 >>) >>, << V3, << >> >>,
      << V11, VerifySigs(<< 1 >>) >>, << V11, VerifySigs(<< 2, 1 >>) >>,
      << V22, VerifySigs(<< 3 >>) >>, << V22, VerifySigs(<< 1, 3 >>) >>,
      << V22, << Malformed, Sign(1, VerifyDigest) >> >>,
      << V22, << Sign(1, WithdrawDigest(1, OtherAction)) >> >>,
      << VUnordered, VerifySigs(<< 1, 2 >>) >>,
      << VSolo, << Sign(1, WithdrawDigest(1, OtherAction)) >> >>,
      << VSolo, << Sign(1, WithdrawDigest(2, VerifyAction)) >> >>,
      << VSolo, << >> >> }

\* the registry holds at most one set at a time in these runs
NextVerify ==
    \/ \E vs \in RegistrySets :
          /\ DOMAIN availableValidators \subseteq {ValidatorHash(vs)}
          /\ addValidator(vs, TRUE)
    \/ \E vs \in RegistrySets : removeValidator(vs, TRUE)
    \/ \E c \in VerifyCalls : verify(c[1], c[2])
    \/ \E c \in VerifyCalls : withdraw(1, c[1], VerifyAction, c[2], TRUE, 1)

SpecVerify == InitFunded /\ [][NextVerify]_vars

\* ------------------------------------------- deposits against the pause flag
DepositAmounts == {0, 2, 3}
Pulls(amount) == {PullReverts, Delivers(amount)}
                   \cup (IF amount > 0 THEN {Delivers(amount - 1)} ELSE {})

NextDeposit ==
    \/ \E auth \in BOOLEAN : pause(auth)
    \/ \E auth \in BOOLEAN : unpause(auth)
    \/ \E t \in Tokens : addToken(t, ConfigA, TRUE)
    \/ removeToken("USDT", TRUE)
    \/ \E t \in Tokens, a \in DepositAmounts : \E p \in Pulls(a) : deposit(t, a, p)
    \/ \E v \in DepositAmounts : depositNative(v)
    \/ \E t \in Tokens, a \in DepositAmounts, v \in {0, 2}, auth \in BOOLEAN :
          \E p \in Pulls(a) : depositFor(t, a, v, p, auth)

SpecDeposit == Init /\ [][NextDeposit]_vars

\* ------------------------------------ the two registries alone (SpecRegistry)
ConfigFeed == [priceFeed |-> "feed", price |-> 0, fixedPrice |-> FALSE,
               priceDecimals |-> OracleDecimals, currencyDecimals |-> 0]
ConfigBadFeed == [ConfigFeed EXCEPT !.priceDecimals = 8]
ConfigNoFeed == [ConfigFeed EXCEPT !.priceFeed = ZeroCurrency]
RegistryConfigs == {ConfigA, ConfigFeed, ConfigBadFeed, ConfigNoFeed}

VDuplicate == << [signer |-> 1, power |-> 1], [signer |-> 1, power |-> 1] >>
VPowerless == << [signer |-> 1, power |-> 0], [signer |-> 2, power |-> 0] >>
VZeroSigner == << [signer |-> ZeroAddr, power |-> 1] >>
AddedSets == {V2, V3, VUnordered, VDuplicate, VPowerless, VZeroSigner, << >>}

NextRegistry ==
    \/ \E t \in Tokens \cup {ZeroCurrency}, cfg \in RegistryConfigs, auth \in BOOLEAN :
          addToken(t, cfg, auth)
    \/ \E t \in Tokens \cup {ZeroCurrency} : addTokenNamed(t, ConfigA, TokenName, TRUE)
    \/ \E t \in Tokens \cup {ZeroCurrency}, auth \in BOOLEAN : removeToken(t, auth)
    \/ \E t \in Tokens, auth \in BOOLEAN : setTokenHash(t, "USD Tether", auth)
    \/ \E vs \in AddedSets, auth \in BOOLEAN : addValidator(vs, auth)
    \/ \E vs \in AddedSets, auth \in BOOLEAN : removeValidator(vs, auth)
    \/ \E vs \in {V2, V3} : verify(vs, VerifySigs(<< 1, 2 >>))

SpecRegistry == Init /\ [][NextRegistry]_vars

\* ------------------------- calls made from inside the transfer adapter
\* The vault with both currencies registered and funded, a validator set and
\* a limit: the state after addToken (twice), updateHourlyLimit,
\* addValidator(V2), deposit(USDT, 6) and depositNative with a value of 6.
InitReentry ==
    /\ paused = FALSE
    /\ hourlyLimit = 1000
    /\ supportToken = [c \in Tokens |-> AddedToken(c, ConfigA)]
    /\ tokenHashMap = [c \in Tokens |->
                         IF c = "USDT" THEN NameHash(TokenName) ELSE NoNameHash]
    /\ withdrawHistory = [i \in Ids |-> 0]
    /\ userWithdrawHistory = [d \in UserDigests |-> 0]
    /\ withdrawPerHours = [b \in Buckets |-> 0]
    /\ availableValidators = [h \in {ValidatorHash(V2)} |-> TotalPower(V2, 0)]
    /\ fees = [c \in Tokens |-> 0]
    /\ custody = [c \in Tokens |-> 6]
    /\ blockNumber = 1
    /\ timestamp = DeployTime
    /\ payouts = [i \in Ids |-> 0]
    /\ digestPayouts = [d \in UserDigests |-> 0]
    /\ deferred = [i \in Ids |-> NoRequest]
    /\ feesAccrued = [c \in Tokens |-> 0]
    /\ feesCollected = [c \in Tokens |-> 0]
    /\ last = NoCall
    /\ status = NOT_ENTERED
    /\ inFlight = NoFrame
    /\ client = NoClient

\* what a revert of the call in flight puts back
Snapshot ==
    [paused |-> paused, withdrawHistory |-> withdrawHistory,
     userWithdrawHistory |-> userWithdrawHistory, withdrawPerHours |-> withdrawPerHours,
     fees |-> fees, custody |-> custody, payouts |-> payouts,
     digestPayouts |-> digestPayouts, deferred |-> deferred,
     feesAccrued |-> feesAccrued, feesCollected |-> feesCollected]

Frame(op, token, amount, before) ==
    [op |-> op, token |-> token, amount |-> amount, before |-> before,
     saved |-> Snapshot]

TopLevel == inFlight.op = "none"

\* (id, validators, action, signers, signed action, auth)
ReentryCalls ==
    { << id, V2, Act(t, 4, 2, "alice"), << 1 >>, Act(t, 4, 2, "alice"), TRUE >> :
         id \in Ids, t \in Tokens }

\* withdraw (committee-authorized) reaches the push of _transfer: the
\* receiver, or the token, is running with the guard entered
EnterWithdraw(c) ==
    /\ TopLevel
    /\ withdrawCall(c[1], c[2], c[3], SigsOf(c[4], c[1], c[5]), c[6], 1)
    /\ last'.err = "ok" /\ ~last'.deferred
    /\ status' = ENTERED
    /\ inFlight' = Frame("withdraw", c[3].token, c[3].amount, 0)
    /\ UNCHANGED client

\* deposit reaches safeTransferFrom: the token is running, the guard entered
EnterDeposit(currency, amount, pull) ==
    /\ TopLevel
    /\ depositCall(currency, amount, pull)
    /\ last'.err = "ok"
    /\ status' = ENTERED
    /\ inFlight' = Frame("deposit", currency, amount, custody[currency])
    /\ UNCHANGED client

\* withdrawFee (one token) reaches the push of _transfer: the receiver is
\* running, no guard entered, fees[token] not yet decremented
EnterWithdrawFee(token, amount, receiver) ==
    LET availableFee == fees[token]
        clamped == IF availableFee < amount THEN availableFee ELSE amount
    IN  /\ TopLevel
        /\ transferPlainErr(custody, receiver, token, clamped) = "ok"
        /\ custody' = [custody EXCEPT ![token] = @ - clamped]
        /\ last' = [Call("withdrawFee", "ok", TRUE) EXCEPT
                      !.action.receiver = receiver, !.action.token = token,
                      !.action.amount = amount]
        /\ inFlight' = Frame("withdrawFee", token, clamped, 0)
        /\ feesCollected' = [feesCollected EXCEPT ![token] = @ + clamped]
        /\ UNCHANGED << paused, hourlyLimit, supportToken, tokenHashMap, withdrawHistory,
                        userWithdrawHistory, withdrawPerHours, availableValidators,
                        fees, chain, payouts, digestPayouts, deferred, feesAccrued,
                        status, client >>

\* the call in flight reverts: everything done since it was entered is undone
Restore(call) ==
    /\ last' = call
    /\ paused' = inFlight.saved.paused
    /\ withdrawHistory' = inFlight.saved.withdrawHistory
    /\ userWithdrawHistory' = inFlight.saved.userWithdrawHistory
    /\ withdrawPerHours' = inFlight.saved.withdrawPerHours
    /\ fees' = inFlight.saved.fees
    /\ custody' = inFlight.saved.custody
    /\ payouts' = inFlight.saved.payouts
    /\ digestPayouts' = inFlight.saved.digestPayouts
    /\ deferred' = inFlight.saved.deferred
    /\ feesAccrued' = inFlight.saved.feesAccrued
    /\ feesCollected' = inFlight.saved.feesCollected

\* the transfer adapter returns and the call in flight runs to its end
Return ==
    /\ ~TopLevel
    /\ status' = NOT_ENTERED
    /\ inFlight' = NoFrame
    /\ UNCHANGED << hourlyLimit, supportToken, tokenHashMap, availableValidators, chain,
                    client >>
    /\ IF inFlight.op = "withdrawFee"
       THEN \* fees[token] -= amount
            IF fees[inFlight.token] >= inFlight.amount
            THEN /\ fees' = [fees EXCEPT ![inFlight.token] = @ - inFlight.amount]
                 /\ last' = [Call("withdrawFee", "ok", TRUE) EXCEPT
                               !.action.token = inFlight.token,
                               !.action.amount = inFlight.amount]
                 /\ UNCHANGED << paused, withdrawHistory, userWithdrawHistory,
                                 withdrawPerHours, custody, history >>
            ELSE Restore(Call("withdrawFee", "Panic(0x11)", TRUE))
       ELSE IF inFlight.op = "deposit"
       THEN \* erc20.balanceOf(address(this)) - before
            IF custody[inFlight.token] >= inFlight.before
            THEN /\ last' = [Call("deposit", "ok", TRUE) EXCEPT
                               !.action.token = inFlight.token,
                               !.action.amount = inFlight.amount,
                               !.credited = custody[inFlight.token] - inFlight.before]
                 /\ UNCHANGED << paused, withdrawHistory, userWithdrawHistory,
                                 withdrawPerHours, fees, custody, history >>
            ELSE Restore(Call("deposit", "Panic(0x11)", TRUE))
       ELSE /\ last' = Call("withdraw", "ok", TRUE)
            /\ UNCHANGED << paused, withdrawHistory, userWithdrawHistory,
                            withdrawPerHours, fees, custody, history >>

\* a call made into the vault by the receiver or the token that is running
Nested(call) == ~TopLevel /\ call

NextReentry ==
    \/ \E c \in ReentryCalls : EnterWithdraw(c)
    \/ EnterDeposit("USDT", 2, Delivers(2))
    \/ \E t \in Tokens : EnterWithdrawFee(t, 2, "alice")
    \/ Return
    \/ Nested(depositNative(2))
    \/ Nested(deposit("USDT", 2, Delivers(2)))
    \/ \E auth \in BOOLEAN : Nested(depositFor(NATIVE, 2, 2, PullReverts, auth))
    \/ \E c \in ReentryCalls : Nested(WithdrawOf(c))
    \/ Nested(withdrawUser("USDT", 2, UserRequest(1, 4, 2, "alice", 0, NameHash(TokenName)),
                           CheckReturns("d1"), TRUE, 1))
    \/ \E t \in Tokens, auth \in BOOLEAN : Nested(withdrawFee(<< t >>, << 2 >>, "alice", auth))

SpecReentry == InitReentry /\ [][NextReentry]_vars

\* ------------------------------ USD values that round to zero (SpecValue)
\* a token with three decimals: 10 units are worth 10^-8 USD
ConfigCoarse == [ConfigA EXCEPT !.currencyDecimals = 3]
ValueConfigs == {ConfigA, ConfigCoarse, ConfigFeed}
\* answers of latestRoundData
OraclePrices == {0, 1}
ValueAmounts == {6, 12}

\* (id, action, latestRoundData answer): committee withdrawals signed by the
\* first validator of V2
ValueCalls ==
    { << id, Act("USDT", a, 0, "alice"), p >> :
         id \in Ids, a \in ValueAmounts, p \in OraclePrices }

ValueWithdraw(c) ==
    withdraw(c[1], V2, c[2], SigsOf(<< 1 >>, c[1], c[2]), TRUE, c[3])

\* (request, withdrawCheck answer, latestRoundData answer)
ValueUserCalls ==
    { << UserRequest(1, a, 0, "alice", d, NameHash(TokenName)), CheckReturns("d1"), p >> :
         a \in ValueAmounts, d \in {0, 3}, p \in OraclePrices }

ValueWithdrawUser(c) == withdrawUser("USDT", 0, c[1], c[2], TRUE, c[3])

NextValue ==
    \/ unpause(TRUE)
    \/ \E l \in Limits : updateHourlyLimit(l, TRUE)
    \/ addValidator(V2, TRUE)
    \/ \E cfg \in ValueConfigs : addTokenNamed("USDT", cfg, TokenName, TRUE)
    \/ removeToken("USDT", TRUE)
    \/ deposit("USDT", 6, Delivers(6))
    \/ \E c \in ValueCalls : ValueWithdraw(c)
    \/ \E c \in ValueUserCalls : ValueWithdrawUser(c)

SpecValue == Init /\ [][NextValue]_vars

\* ------------------ withdrawals, cancellations and fee collection (SpecLedger)
LedgerAction == Act("USDT", 4, 2, "alice")

LedgerWithdraw(id) ==
    withdraw(id, V2, LedgerAction, SigsOf(<< 1 >>, id, LedgerAction), TRUE, 1)

LedgerWithdrawUser(id) ==
    withdrawUser("USDT", 2, UserRequest(id, 4, 2, "alice", 0, NameHash(TokenName)),
                 CheckReturns("d1"), TRUE, 1)

\* a request whose fee exceeds its amount, as a committee-authorized and as a
\* user-co-signed withdrawal
OverdrawnAction == Act("USDT", 1, 2, "alice")

LedgerOverdrawn(id) ==
    \/ withdraw(id, V2, OverdrawnAction, SigsOf(<< 1 >>, id, OverdrawnAction), TRUE, 1)
    \/ withdrawUser("USDT", 2, UserRequest(id, 1, 2, "alice", 0, NameHash(TokenName)),
                    CheckReturns("d1"), TRUE, 1)

NextLedger ==
    \/ unpause(TRUE)
    \/ \E l \in Limits : updateHourlyLimit(l, TRUE)
    \/ addValidator(V2, TRUE)
    \/ addTokenNamed("USDT", ConfigA, TokenName, TRUE)
    \/ removeToken("USDT", TRUE)
    \/ deposit("USDT", 3, Delivers(3))
    \/ \E id \in Ids : LedgerWithdraw(id)
    \/ \E id \in Ids : LedgerWithdrawUser(id)
    \/ \E id \in Ids : LedgerOverdrawn(id)
    \/ \E id \in Ids, d \in {"d1", ZeroBytes32}, auth \in BOOLEAN :
          cancelWithdraw(id, d, auth)
    \/ \E a \in {1, 3} : withdrawFee(<< "USDT" >>, << a >>, "alice", TRUE)

SpecLedger == Init /\ [][NextLedger]_vars

\* --------------------------------- the client deposit scripts (SpecClient)
\* the deposit amount of the scripts, in units of the token
DEPOSIT_AMOUNT == 2
\* ethers.MaxUint256 (scaled)
MaxUint256 == 9
\* MIN_GAS_BNB and the amount Step 0 sends (scaled)
MIN_GAS_BNB == 2
FundAmount == 3

\* a call of a contract: what is called, the allowance or balance it writes
\* or reads, and the value it carries
Tx(call, slot, value) == [call |-> call, slot |-> slot, value |-> value]
\* one awaited statement of a script; `alt` is what happens when it fails or
\* reads too little, `skip` how many statements a sufficient read jumps over
Instr(op, arg, alt, skip) == [op |-> op, arg |-> arg, alt |-> alt, skip |-> skip]

\* if (current < amount) { approve(spender, value); await tx.wait(); }
ensureAllowance(slot, amount, value) ==
    << Instr("read", Tx("allowance", slot, amount), "next", 2),
       Instr("send", Tx("approve", slot, value), "raise", 0),
       Instr("wait", Tx("approve", slot, value), "raise", 0) >>

\* try { staticCall } catch { report decodeError; return or throw }, then the
\* transaction and tx.wait()
SimulateThenSend(call, alt) ==
    << Instr("staticCall", Tx(call, "vault", DEPOSIT_AMOUNT), alt, 0),
       Instr("send", Tx(call, "vault", DEPOSIT_AMOUNT), "raise", 0),
       Instr("wait", Tx(call, "vault", DEPOSIT_AMOUNT), "raise", 0) >>

\* src/deposit.ts: allowance, approve, simulate deposit, deposit
DepositScript ==
    ensureAllowance("Wallet>Vault", DEPOSIT_AMOUNT, DEPOSIT_AMOUNT)
        \o SimulateThenSend("deposit", "return")

\* the depositFor script: the approval is simulated too, outside any try
DepositForScript ==
    << Instr("read", Tx("allowance", "Wallet>Vault", DEPOSIT_AMOUNT), "next", 3),
       Instr("staticCall", Tx("approve", "Wallet>Vault", DEPOSIT_AMOUNT), "raise", 0),
       Instr("send", Tx("approve", "Wallet>Vault", DEPOSIT_AMOUNT), "raise", 0),
       Instr("wait", Tx("approve", "Wallet>Vault", DEPOSIT_AMOUNT), "raise", 0) >>
        \o SimulateThenSend("depositFor", "return")

\* multicall_deposit.ts: balance, Step 0 (gas), Step 1 (Wallet 1 approves
\* Wallet 2), Step 2 (transferFrom), Step 3 (Wallet 2 approves the vault),
\* Step 4 (depositFor or deposit)
TwoWalletScript(USE_DEPOSIT_FOR) ==
    << Instr("read", Tx("balanceOf", "Wallet1", DEPOSIT_AMOUNT), "return", 0),
       Instr("read", Tx("getBalance", "Wallet2 gas", MIN_GAS_BNB), "next", 2),
       Instr("send", Tx("fund", "Wallet2 gas", FundAmount), "raise", 0),
       Instr("wait", Tx("fund", "Wallet2 gas", FundAmount), "raise", 0) >>
        \o ensureAllowance("Wallet1>Wallet2", DEPOSIT_AMOUNT, DEPOSIT_AMOUNT)
        \o << Instr("send", Tx("transferFrom", "Wallet1", DEPOSIT_AMOUNT), "raise", 0),
              Instr("wait", Tx("transferFrom", "Wallet1", DEPOSIT_AMOUNT), "raise", 0) >>
        \o ensureAllowance("Wallet2>Vault", DEPOSIT_AMOUNT, MaxUint256)
        \o SimulateThenSend(IF USE_DEPOSIT_FOR THEN "depositFor" ELSE "deposit", "return")

\* (Pre B made after the pull, as Step 3 of multicall_deposit.ts is)
MulticallScriptPullFirst ==
    << Instr("read", Tx("balanceOf", "Wallet1", DEPOSIT_AMOUNT), "throw", 0) >>
        \o ensureAllowance("Wallet1>Multicall3", DEPOSIT_AMOUNT, MaxUint256)
        \o << Instr("staticCall", Tx("aggregate3", "Wallet1", DEPOSIT_AMOUNT), "throw", 0),
              Instr("estimateGas", Tx("aggregate3", "Wallet1", DEPOSIT_AMOUNT), "raise", 0),
              Instr("send", Tx("aggregate3", "Wallet1", DEPOSIT_AMOUNT), "raise", 0),
              Instr("wait", Tx("aggregate3", "Wallet1", DEPOSIT_AMOUNT), "raise", 0) >>
        \o ensureAllowance("Wallet2>Vault", DEPOSIT_AMOUNT, MaxUint256)
        \o SimulateThenSend("deposit", "throw")

\* asterdeposit.ts: balance, Pre A, Pre B, Tx 1 (the pull through
\* Multicall3), Tx 2 (deposit)
MulticallScript ==
    << Instr("read", Tx("balanceOf", "Wallet1", DEPOSIT_AMOUNT), "throw", 0) >>
        \o ensureAllowance("Wallet1>Multicall3", DEPOSIT_AMOUNT, MaxUint256)
        \o ensureAllowance("Wallet2>Vault", DEPOSIT_AMOUNT, MaxUint256)
        \o << Instr("staticCall", Tx("aggregate3", "Wallet1", DEPOSIT_AMOUNT), "throw", 0),
              Instr("estimateGas", Tx("aggregate3", "Wallet1", DEPOSIT_AMOUNT), "raise", 0),
              Instr("send", Tx("aggregate3", "Wallet1", DEPOSIT_AMOUNT), "raise", 0),
              Instr("wait", Tx("aggregate3", "Wallet1", DEPOSIT_AMOUNT), "raise", 0) >>
        \o SimulateThenSend("deposit", "throw")

Scripts ==
    {"deposit.ts", "depositFor", "multicall_deposit.ts", "multicall_deposit.ts depositFor",
     "asterdeposit.ts"}

main(script) ==
    IF script = "deposit.ts" THEN DepositScript
    ELSE IF script = "depositFor" THEN DepositForScript
    ELSE IF script = "multicall_deposit.ts" THEN TwoWalletScript(FALSE)
    ELSE IF script = "multicall_deposit.ts depositFor" THEN TwoWalletScript(TRUE)
    ELSE MulticallScript

\* the allowances and balances the scripts read
Slots ==
    {"Wallet>Vault", "Wallet1>Wallet2", "Wallet1>Multicall3", "Wallet2>Vault",
     "Wallet1", "Wallet2 gas"}
\* what they hold when a script starts: enough, or one unit short
StartSlots == [Slots -> {DEPOSIT_AMOUNT - 1, DEPOSIT_AMOUNT}]

InitClient ==
    /\ paused = FALSE
    /\ hourlyLimit = 0
    /\ supportToken = [c \in Tokens |-> NoToken]
    /\ tokenHashMap = [c \in Tokens |-> NoNameHash]
    /\ withdrawHistory = [i \in Ids |-> 0]
    /\ userWithdrawHistory = [d \in UserDigests |-> 0]
    /\ withdrawPerHours = [b \in Buckets |-> 0]
    /\ availableValidators = [h \in {} |-> 0]
    /\ fees = [c \in Tokens |-> 0]
    /\ custody = [c \in Tokens |-> 0]
    /\ blockNumber = 1
    /\ timestamp = DeployTime
    /\ payouts = [i \in Ids |-> 0]
    /\ digestPayouts = [d \in UserDigests |-> 0]
    /\ deferred = [i \in Ids |-> NoRequest]
    /\ feesAccrued = [c \in Tokens |-> 0]
    /\ feesCollected = [c \in Tokens |-> 0]
    /\ last = NoCall
    /\ status = NOT_ENTERED
    /\ inFlight = NoFrame
    /\ client \in {[NoClient EXCEPT !.script = s, !.pc = 1, !.outcome = "running",
                                    !.slots = v] : s \in Scripts, v \in StartSlots}

\* the statement the script stands at
Current == main(client.script)[client.pc]
Running == client.outcome = "running" /\ client.pc <= Len(main(client.script))

\* the script moves n statements on; past the last one main() returns
Advance(c, n) ==
    [c EXCEPT !.pc = @ + n,
              !.outcome = IF c.pc + n > Len(main(c.script)) THEN "done" ELSE @]

\* the statement fails: `return` inside main, or an error that leaves main
\* and reaches main().catch
Leave(c, alt) == [c EXCEPT !.outcome = IF alt = "return" THEN "returned" ELSE "thrown"]

\* a read of an allowance or a balance and the `if` on it
Read ==
    /\ Running /\ Current.op = "read"
    /\ client' = IF client.slots[Current.arg.slot] < Current.arg.value
                 THEN IF Current.alt = "next" THEN Advance(client, 1)
                      ELSE Leave(client, Current.alt)
                 ELSE Advance(client, 1 + Current.skip)
    /\ UNCHANGED << storage, chain, history, last, guard >>

\* (a simulation whose failure is reported and then ignored)
staticCallIgnored(passes) ==
    /\ Running /\ Current.op = "staticCall"
    /\ client' = IF passes
                 THEN Advance([client EXCEPT !.simulated = @ \cup {Current.arg}], 1)
                 ELSE Advance([client EXCEPT
                                 !.simulated = @ \ {Current.arg},
                                 !.reported = IF Current.alt \in {"return", "throw"}
                                              THEN @ \cup {Current.arg} ELSE @], 1)
    /\ UNCHANGED << storage, chain, history, last, guard >>

\* contract.fn.staticCall(...): it passes, or it fails and the catch block,
\* where there is one, reports decodeError(err) and returns or rethrows
staticCall(passes) ==
    /\ Running /\ Current.op = "staticCall"
    /\ client' = IF passes
                 THEN Advance([client EXCEPT !.simulated = @ \cup {Current.arg}], 1)
                 ELSE Leave([client EXCEPT
                               !.simulated = @ \ {Current.arg},
                               !.reported = IF Current.alt \in {"return", "throw"}
                                            THEN @ \cup {Current.arg} ELSE @],
                            Current.alt)
    /\ UNCHANGED << storage, chain, history, last, guard >>

\* contract.fn.estimateGas(...), outside any try
estimateGas(passes) ==
    /\ Running /\ Current.op = "estimateGas"
    /\ client' = IF passes THEN Advance(client, 1) ELSE Leave(client, Current.alt)
    /\ UNCHANGED << storage, chain, history, last, guard >>

\* the transaction is signed and sent, or the provider refuses it
send(accepted) ==
    /\ Running /\ Current.op = "send"
    /\ client' = IF accepted
                 THEN Advance([client EXCEPT !.sent = Append(@, Current.arg)], 1)
                 ELSE Leave(client, Current.alt)
    /\ UNCHANGED << storage, chain, history, last, guard >>

\* await tx.wait(): the transaction is mined and succeeded (an approval and
\* the funding write what they carry), or it reverted and wait() throws
wait(mined) ==
    /\ Running /\ Current.op = "wait"
    /\ client' =
          IF mined
          THEN Advance([client EXCEPT
                          !.confirmed = @ \cup {Current.arg},
                          !.slots = IF Current.arg.call \in {"approve", "fund"}
                                    THEN [@ EXCEPT ![Current.arg.slot] = Current.arg.value]
                                    ELSE @], 1)
          ELSE Leave(client, Current.alt)
    /\ UNCHANGED << storage, chain, history, last, guard >>

NextClient ==
    \/ Read
    \/ \E passes \in BOOLEAN : staticCall(passes)
    \/ \E passes \in BOOLEAN : estimateGas(passes)
    \/ \E accepted \in BOOLEAN : send(accepted)
    \/ \E mined \in BOOLEAN : wait(mined)

SpecClient == InitClient /\ [][NextClient]_vars

\* ======================================================== claims, C1 - C10
Withdrawals == {"withdraw", "withdrawUser"}

\* C1 (as stated): once an id has been paid out or cancelled, every later
\* committee-authorized withdrawal with that id, sent by the operator, fails
\* with "already withdraw" and leaves the custody balance as it was; at most
\* one payout is made per id.
C1_AlwaysAlreadyWithdrawn ==
    [][ \A id \in Ids :
          /\ payouts'[id] <= 1
          /\ (withdrawHistory[id] # 0 /\ last'.op = "withdraw" /\ last'.id = id /\ last'.auth)
                => (last'.err = "already withdraw" /\ custody' = custody) ]_vars

\* C1 (amended): at most one payout is made per id, and once an id has been
\* paid out or cancelled every later committee-authorized withdrawal with that
\* id sent by the operator fails and leaves the custody balance as it was: with
\* "already withdraw" when the vault is not paused, with EnforcedPause (the
\* check that runs first) when it is.
C1_ReplayRejected ==
    [][ \A id \in Ids :
          /\ payouts'[id] <= 1
          /\ (withdrawHistory[id] # 0 /\ last'.op = "withdraw" /\ last'.id = id /\ last'.auth)
                => /\ last'.err = IF paused THEN "EnforcedPause" ELSE "already withdraw"
                   /\ custody' = custody
                   /\ payouts' = payouts ]_vars

\* an id was paid out once and a later withdrawal with it was refused
C1_Witness ==
    \E id \in Ids :
        /\ payouts[id] = 1
        /\ last.op = "withdraw" /\ last.id = id /\ last.err = "already withdraw"

\* C2: Processed is terminal: a non-zero withdrawHistory[id] is never reset
\* to zero nor overwritten by any operation.
C2_ProcessedIsTerminal ==
    [][ \A id \in Ids :
          withdrawHistory[id] # 0 => withdrawHistory'[id] = withdrawHistory[id] ]_vars

\* an id processed in an earlier block survived a later cancellation attempt
C2_Witness ==
    \E id \in Ids :
        /\ withdrawHistory[id] # 0 /\ withdrawHistory[id] < blockNumber
        /\ last.op = "cancelWithdraw" /\ last.id = id /\ last.err = "AlreadyWithdraw"

\* C7: while paused, both withdrawal variants fail with EnforcedPause before
\* any other check (whoever calls, whatever the id) and change nothing; the
\* pause ends only by an authorized unpause, not by the hour bucket advancing.
C7_PausedBlocksWithdrawals ==
    [][ /\ (paused /\ last'.op \in Withdrawals)
            => (last'.err = "EnforcedPause" /\ UNCHANGED << storage, history >>)
        /\ (paused /\ ~paused')
            => (last'.op = "unpause" /\ last'.auth /\ last'.err = "ok") ]_vars

\* paid out in the deployment hour, paused, and a withdrawal refused in a
\* later hour bucket
C7_Witness ==
    /\ paused
    /\ last.op \in Withdrawals /\ last.err = "EnforcedPause"
    /\ cursorOf(timestamp) > cursorOf(DeployTime)
    /\ withdrawPerHours[cursorOf(DeployTime)] > 0

\* C10 (as stated): a consumed user digest is write-once: once
\* userWithdrawHistory[digest] is non-zero no operation writes it again, and
\* no payout is made for a consumed digest.
C10_DigestWriteOnce ==
    [][ \A d \in UserDigests :
          /\ digestPayouts'[d] <= 1
          /\ userWithdrawHistory[d] # 0
                => userWithdrawHistory'[d] = userWithdrawHistory[d] ]_vars

\* ---- C6, C9: the circuit breaker (checked under SpecLimit)
\* the call passes the pause, role, replay, currency and quorum checks
PassesChecks(c) ==
    /\ ~paused /\ c[6]
    /\ withdrawHistory[c[1]] = 0
    /\ supportToken[c[3].token].currency # ZeroCurrency
    /\ verifyValidatorSignature(c[2], WithdrawDigest(c[1], c[3]), SigsOf(c[4], c[1], c[5])) = "ok"

UsdOf(c) == (supportToken[c[3].token].price * c[3].amount * Pow10(USD_DECIMALS))
               \div Pow10(supportToken[c[3].token].priceDecimals
                          + supportToken[c[3].token].currencyDecimals)

\* returned without error, pause set, nothing else changed
DeferredOnly ==
    /\ last'.err = "ok" /\ last'.deferred
    /\ paused'
    /\ UNCHANGED << hourlyLimit, supportToken, tokenHashMap, withdrawHistory,
                    userWithdrawHistory, withdrawPerHours, availableValidators,
                    fees, custody, payouts, digestPayouts >>

\* C6 (as stated): a committee-authorized withdrawal that passes the replay,
\* currency and quorum checks while HourlyVolume[bucket] + usdValue >
\* hourlyLimit returns without error, sets the pause and changes nothing else.
C6_BreachAlwaysDefers ==
    [][ \A c \in WithdrawCalls :
          ( /\ PassesChecks(c)
            /\ withdrawPerHours[timestamp \div HOUR] + UsdOf(c) > hourlyLimit
            /\ WithdrawOf(c) ) => DeferredOnly ]_vars

\* C6 (amended): the same, for a withdrawal whose USD value is not zero (a
\* zero value fails with ZeroAmount before the limit is compared).
C6_BreachDefers ==
    [][ \A c \in WithdrawCalls :
          ( /\ PassesChecks(c)
            /\ UsdOf(c) > 0
            /\ withdrawPerHours[timestamp \div HOUR] + UsdOf(c) > hourlyLimit
            /\ WithdrawOf(c) ) => DeferredOnly ]_vars

\* a withdrawal deferred on top of an earlier payout of the same hour
C6_Witness ==
    /\ last.op = "withdraw" /\ last.err = "ok" /\ last.deferred
    /\ paused
    /\ withdrawHistory[last.id] = 0
    /\ withdrawPerHours[timestamp \div HOUR] > 0
    /\ withdrawPerHours[timestamp \div HOUR] + last.usd > hourlyLimit

\* C9: with hourlyLimit = 1000, a request valued 600 that the breaker deferred
\* succeeds when the operator sends it again after an unpause, in a fresh
\* hour bucket, the custody balance covering the payout.
C9_DeferredRetrySucceeds ==
    [][ \A c \in WithdrawCalls :
          ( /\ deferred[c[1]] = [action |-> c[3], validators |-> c[2],
                                 sigs |-> SigsOf(c[4], c[1], c[5])]
            /\ c[6] /\ ~paused
            /\ hourlyLimit = 1000 /\ UsdOf(c) = 600
            /\ withdrawPerHours[timestamp \div HOUR] = 0
            /\ custody[c[3].token] >= c[3].amount - c[3].fee
            /\ WithdrawOf(c) )
          => /\ last'.err = "ok" /\ ~last'.deferred
             /\ withdrawHistory'[c[1]] = blockNumber
             /\ payouts'[c[1]] = 1
             /\ withdrawPerHours'[timestamp \div HOUR] = 600 ]_vars

\* first withdrawal paid (bucket 600), second deferred, then paid in the next
\* hour after an unpause
C9_Witness ==
    /\ last.op = "withdraw" /\ last.err = "ok" /\ ~last.deferred /\ last.usd = 600
    /\ last.retried
    /\ payouts[1] = 1 /\ payouts[2] = 1
    /\ hourlyLimit = 1000
    /\ withdrawPerHours[DeployTime \div HOUR] = 600
    /\ withdrawPerHours[timestamp \div HOUR] = 600
    /\ timestamp \div HOUR > DeployTime \div HOUR
    /\ withdrawHistory[last.id] = blockNumber

\* ---- C3, C4, C5: the verifier (checked under SpecVerify)
\* the addresses the signatures of a list recover to, for the digest verified
RecoveredFrom(sigs) ==
    {Recover(toEthSignedMessageHash(VerifyDigest), sigs[k]) : k \in 1 .. Len(sigs)}

\* the power of the validators of the set that signed the digest
RECURSIVE CoveredPower(_, _, _)
CoveredPower(validators, sigs, k) ==
    IF k > Len(validators) THEN 0
    ELSE (IF validators[k].signer \in RecoveredFrom(sigs) THEN validators[k].power ELSE 0)
         + CoveredPower(validators, sigs, k + 1)

Registered == DOMAIN availableValidators

\* C3: a set that is not registered (never added, or removed) fails
\* verification with "validator illegal" whatever the signatures, and no
\* committee-authorized withdrawal pays out against such a set.
C3_UnregisteredSetRejected ==
    /\ \A vs \in RegistrySets \ Registered, sigs \in SigLists :
          /\ verifyValidatorSignature(vs, VerifyDigest, sigs) = "validator illegal"
          /\ withdrawErr(1, vs, VerifyAction, sigs, TRUE, 1)
                \in {"validator illegal", "already withdraw", "EnforcedPause"}
    /\ (last.op = "withdraw" /\ last.err = "ok" /\ ~last.deferred)
          => ValidatorHash(last.validators) \in Registered

\* a withdrawal refused for a set that was registered and then removed
C3_Witness ==
    /\ last.op = "withdraw" /\ last.err = "validator illegal"
    /\ Registered = {}
    /\ payouts[1] = 0 /\ custody["USDT"] = 6

\* C4 (as stated): for a registered set, signatures covering less than 2/3
\* of the total power fail with "validator signature illegal".
C4_BelowTwoThirdsFails ==
    \A vs \in Registered, sigs \in SigLists :
        3 * CoveredPower(vs, sigs, 1) < 2 * availableValidators[vs]
            => verifyValidatorSignature(vs, VerifyDigest, sigs) = "validator signature illegal"

\* C4 (amended): for a registered set, signatures covering less than
\* floor(2 * total / 3) of power fail: with "validator signature illegal"
\* when every signature is well-formed, with that error or the recovery's
\* ECDSAInvalidSignature when one is malformed.
C4_BelowFloorFails ==
    \A vs \in Registered, sigs \in SigLists :
        CoveredPower(vs, sigs, 1) < (2 * availableValidators[vs]) \div 3
            => verifyValidatorSignature(vs, VerifyDigest, sigs)
                  \in IF \E k \in 1 .. Len(sigs) : sigs[k] = Malformed
                      THEN {"validator signature illegal", InvalidSignature}
                      ELSE {"validator signature illegal"}

\* one signer of three equal ones was not enough
C4_Witness ==
    /\ last.op = "verifyValidatorSignature" /\ last.err = "validator signature illegal"
    /\ last.validators = V3 /\ V3 \in Registered
    /\ CoveredPower(V3, last.sigs, 1) = 1

\* every signature of the list is a validator's, over the digest
AllBySet(vs, sigs) ==
    RecoveredFrom(sigs) \subseteq {vs[k].signer : k \in 1 .. Len(vs)}

\* the list is in strictly increasing signer order
Increasing(sigs) ==
    \A k \in 1 .. Len(sigs) - 1 : sigs[k].signer < sigs[k + 1].signer

\* C5 (as stated): for a registered set, every list of signatures of its
\* validators holding at least 2/3 of the total power verifies.
C5_TwoThirdsVerifies ==
    \A vs \in Registered, sigs \in SigLists :
        (AllBySet(vs, sigs) /\ 3 * CoveredPower(vs, sigs, 1) >= 2 * availableValidators[vs])
            => verifyValidatorSignature(vs, VerifyDigest, sigs) = "ok"

\* C5 (amended): for a set registered with a non-zero total power, every list
\* of signatures of its validators, given in strictly increasing signer
\* order and holding at least 2/3 of the total power, verifies.
C5_OrderedTwoThirdsVerifies ==
    \A vs \in Registered, sigs \in SigLists :
        ( /\ AllBySet(vs, sigs) /\ Increasing(sigs)
          /\ 3 * CoveredPower(vs, sigs, 1) >= 2 * availableValidators[vs] )
            => verifyValidatorSignature(vs, VerifyDigest, sigs) = "ok"

\* two of three equal signers, in order, verified
C5_Witness ==
    /\ last.op = "verifyValidatorSignature" /\ last.err = "ok"
    /\ last.validators = V3 /\ V3 \in Registered
    /\ Len(last.sigs) = 2 /\ Increasing(last.sigs)

\* ---- C8: deposits and the pause flag (checked under SpecDeposit)
Deposits == {"deposit", "depositNative", "depositFor"}

\* the outcome the call recorded in last' has from the same storage with the
\* pause flag set to isPaused
OutcomeUnder(isPaused) ==
    IF last'.op = "deposit"
    THEN DepositOutcome(isPaused, last'.action.token, last'.action.amount, last'.pull)
    ELSE IF last'.op = "depositNative"
    THEN DepositNativeOutcome(isPaused, last'.value)
    ELSE DepositForOutcome(isPaused, last'.action.token, last'.action.amount,
                           last'.value, last'.pull, last'.auth)

\* C8: deposit, depositNative and depositFor end as they would with the pause
\* flag the other way round (same error or same credited amount and same
\* custody), and leave the pause flag as it was.
C8_DepositsIgnorePause ==
    [][ last'.op \in Deposits =>
          /\ paused' = paused
          /\ OutcomeUnder(paused) = OutcomeUnder(~paused)
          /\ last'.err = OutcomeUnder(~paused).err
          /\ last'.credited = OutcomeUnder(~paused).credited
          /\ custody' = IF last'.err = "ok"
                        THEN [custody EXCEPT ![last'.action.token] =
                                 @ + OutcomeUnder(~paused).received]
                        ELSE custody ]_vars

\* a deposit credited while the vault is paused
C8_Witness ==
    /\ paused
    /\ last.op \in Deposits /\ last.err = "ok"
    /\ last.credited > 0 /\ custody[last.action.token] >= last.credited

\* ======================================================= claims, C11 - C20
\* ---- C11, C12: deposit accounting (checked under SpecDeposit)
\* C11: deposit credits the measured increase of the custody balance, not
\* the amount asked for: a pull of 100 that delivers 95 credits 95.
C11_CreditsMeasuredDelta ==
    [][ /\ (last'.op = "deposit" /\ last'.err = "ok")
              => /\ last'.credited = custody'[last'.action.token] - custody[last'.action.token]
                 /\ last'.credited = last'.pull.delivered
        /\ supportCurrency("USDT")
              => DepositOutcome(paused, "USDT", 100, Delivers(95))
                    = [err |-> "ok", credited |-> 95, received |-> 95] ]_vars

\* a short delivery was credited as delivered
C11_Witness ==
    /\ last.op = "deposit" /\ last.err = "ok"
    /\ last.pull.delivered < last.action.amount
    /\ last.credited = last.pull.delivered
    /\ custody[last.action.token] >= last.credited

\* the transfer that came with a depositFor call was exact
ExactTransfer(call) ==
    IF call.action.token = NATIVE
    THEN call.value = call.action.amount
    ELSE call.value = 0 /\ call.pull.ok /\ call.pull.delivered = call.action.amount

\* C12: a depositFor by the depositor, for a supported currency and a
\* non-zero amount, succeeds only on an exact transfer: native with a value
\* other than amount fails with AmountIllegal; a token with a native value
\* fails with ValueNotZero, and with a pulled delta other than amount fails
\* with AmountIllegal; a failing call changes no storage and credits nothing.
C12_DepositForExact ==
    [][ last'.op = "depositFor" =>
          /\ last'.err = "ok" => ExactTransfer(last') /\ last'.credited = last'.action.amount
          /\ last'.err # "ok" => last'.credited = 0 /\ UNCHANGED storage
          /\ ( /\ last'.auth /\ supportCurrency(last'.action.token)
               /\ last'.action.amount # 0 )
                => IF last'.action.token = NATIVE
                   THEN last'.value # last'.action.amount => last'.err = "AmountIllegal"
                   ELSE /\ last'.value # 0 => last'.err = "ValueNotZero"
                        /\ ( /\ last'.value = 0 /\ last'.pull.ok
                             /\ last'.pull.delivered # last'.action.amount )
                              => last'.err = "AmountIllegal" ]_vars

\* a short pull was refused and left the custody as it was
C12_Witness ==
    /\ last.op = "depositFor" /\ last.err = "AmountIllegal"
    /\ last.action.token = "USDT" /\ last.value = 0
    /\ last.pull.ok /\ last.pull.delivered < last.action.amount
    /\ custody["USDT"] = 0

\* ---- C13: fee collection (checked under Spec)
Min(a, b) == IF a < b THEN a ELSE b

\* C13 (as stated): withdrawFee by the admin to a receiver never fails: it
\* pays min(amount, fees[token]) and decrements the pool by that amount.
C13_CollectNeverFails ==
    [][ ( /\ last'.op = "withdrawFee" /\ last'.auth
          /\ last'.action.receiver # ZeroCurrency )
            => LET token == last'.action.token
                   paid == Min(last'.action.amount, fees[token])
               IN  /\ last'.err = "ok"
                   /\ fees'[token] = fees[token] - paid
                   /\ custody'[token] = custody[token] - paid ]_vars

\* ---- C15: the effects of an admitted committee withdrawal (under Spec)
\* the transfer of the call can be made: a receiver, a fee within the
\* amount, a non-zero USD value and enough custody
Payable(c) ==
    /\ c[3].receiver # ZeroCurrency
    /\ c[3].fee <= c[3].amount
    /\ UsdOf(c) > 0
    /\ custody[c[3].token] >= c[3].amount - c[3].fee

\* C15: an admitted committee withdrawal (not paused, id unused, currency
\* supported, quorum met, limit not exceeded) whose transfer can be made
\* succeeds, and a successful one marks the id with the block number, takes
\* exactly amount - fee from the custody of its currency, adds exactly fee to
\* that currency's pool and the USD value of amount to the current hour
\* bucket, and changes no other currency's pool or balance.
C15_AdmittedWithdrawalEffects ==
    [][ /\ \A c \in WithdrawCalls :
              ( /\ PassesChecks(c) /\ Payable(c)
                /\ withdrawPerHours[timestamp \div HOUR] + UsdOf(c) <= hourlyLimit )
                 => /\ withdrawErr(c[1], c[2], c[3], SigsOf(c[4], c[1], c[5]), c[6], 1) = "ok"
                    /\ ~withdrawDeferred(c[1], c[2], c[3], SigsOf(c[4], c[1], c[5]), c[6], 1)
        /\ (last'.op = "withdraw" /\ last'.err = "ok" /\ ~last'.deferred)
              => LET a == last'.action
                     id == last'.id
                 IN  /\ ~paused /\ ~paused'
                     /\ withdrawHistory[id] = 0
                     /\ withdrawHistory' = [withdrawHistory EXCEPT ![id] = blockNumber]
                     /\ payouts' = [payouts EXCEPT ![id] = @ + 1]
                     /\ custody' = [custody EXCEPT ![a.token] = @ - (a.amount - a.fee)]
                     /\ fees' = [fees EXCEPT ![a.token] = @ + a.fee]
                     /\ withdrawPerHours' =
                           [withdrawPerHours EXCEPT ![timestamp \div HOUR] =
                               @ + (supportToken[a.token].price * a.amount * Pow10(USD_DECIMALS))
                                     \div Pow10(supportToken[a.token].priceDecimals
                                                + supportToken[a.token].currencyDecimals)]
                     /\ withdrawPerHours'[timestamp \div HOUR] <= hourlyLimit ]_vars

\* a withdrawal of 6 with a fee of 2 was paid: 4 left the custody, 2 accrued
C15_Witness ==
    /\ last.op = "withdraw" /\ last.err = "ok" /\ ~last.deferred
    /\ last.action.amount = 6 /\ last.action.fee = 2
    /\ custody["USDT"] = 2 /\ fees["USDT"] = 2
    /\ withdrawHistory[last.id] = blockNumber

\* ---- C16: the order of the external check and the limit (under Spec)
\* C16 (as stated): a user-co-signed withdrawal the external validator does
\* not approve never sets the pause and never adds to the hour bucket.
C16_UnapprovedNeverPauses ==
    [][ (last'.op = "withdrawUser" /\ ~last'.approved)
            => /\ paused' = paused
               /\ withdrawPerHours' = withdrawPerHours ]_vars

\* ---- C17, C18: the token registry (checked under SpecRegistry)
IsRegistered(currency) ==
    currency \in Tokens /\ supportToken[currency].currency # ZeroCurrency

\* C17: addToken (either variant) by the token manager for a currency that
\* is registered fails with TokenAlreadyExist, and for the null currency with
\* ZeroAddress; the failed call leaves the whole storage as it was.
C17_RegisterTwiceFails ==
    [][ (last'.op \in {"addToken", "addTokenNamed"} /\ last'.auth)
            => /\ last'.action.token = ZeroCurrency
                    => last'.err = "ZeroAddress" /\ UNCHANGED storage
               /\ IsRegistered(last'.action.token)
                    => last'.err = "TokenAlreadyExist" /\ UNCHANGED storage
               /\ last'.err # "ok" => UNCHANGED storage ]_vars

\* a second registration of a named token was refused
C17_Witness ==
    /\ last.op = "addToken" /\ last.err = "TokenAlreadyExist"
    /\ supportToken[last.action.token] = AddedToken(last.action.token, ConfigA)
    /\ tokenHashMap[last.action.token] = NameHash(TokenName)

\* C18 (as stated): removeToken for a currency that is not registered fails
\* and changes no state.
C18_DeregisterAbsentFails ==
    [][ ( /\ last'.op = "removeToken" /\ last'.auth
          /\ last'.action.token # ZeroCurrency
          /\ ~IsRegistered(last'.action.token) )
            => last'.err # "ok" /\ UNCHANGED storage ]_vars

\* ---- C19, C20: the validator registry (checked under SpecRegistry)
\* the registry without the entry of a hash
Without(hash) ==
    [h \in DOMAIN availableValidators \ {hash} |-> availableValidators[h]]

\* C19: removeValidator called right after a successful addValidator of the
\* same set leaves the registry without that set's hash and every other
\* entry as it was, and verification against the set then fails with
\* "validator illegal" whatever the signatures.
C19_AddThenRemove ==
    [][ ( /\ last.op = "addValidator" /\ last.err = "ok"
          /\ last'.op = "removeValidator" /\ last'.auth
          /\ last'.validators = last.validators )
            => /\ availableValidators' = Without(ValidatorHash(last.validators))
               /\ ValidatorHash(last.validators) \in DOMAIN availableValidators
                     => last'.err = "ok"
               /\ \A sigs \in SigLists :
                     (verifyValidatorSignature(last.validators, VerifyDigest, sigs))'
                         = "validator illegal" ]_vars

\* a set was added and removed again while another set stayed registered
C19_Witness ==
    /\ last.op = "removeValidator" /\ last.err = "ok" /\ last.validators = V3
    /\ last.justAdded
    /\ DOMAIN availableValidators = {ValidatorHash(V2)}
    /\ availableValidators[ValidatorHash(V2)] = 4

StrictlyIncreasing(validators) ==
    \A i, j \in 1 .. Len(validators) :
        i < j => validators[i].signer < validators[j].signer

RECURSIVE SumOfPowers(_, _)
SumOfPowers(validators, k) ==
    IF k > Len(validators) THEN 0
    ELSE validators[k].power + SumOfPowers(validators, k + 1)

\* C20: addValidator by the admin succeeds only for a set with strictly
\* increasing signers whose hash is not registered; an out-of-order or
\* duplicate signer fails with "validator not ordered", a registered hash
\* with "already set"; on success the entry of the hash is the sum of the
\* powers and the other entries stay; on failure the registry is unchanged.
C20_AddSetChecked ==
    [][ (last'.op = "addValidator" /\ last'.auth)
            => LET vs == last'.validators
                   hash == ValidatorHash(vs)
               IN  /\ last'.err = "ok"
                        => /\ StrictlyIncreasing(vs)
                           /\ hash \notin DOMAIN availableValidators
                           /\ availableValidators' =
                                 IF SumOfPowers(vs, 1) = 0 THEN availableValidators
                                 ELSE [h \in DOMAIN availableValidators \cup {hash} |->
                                         IF h = hash THEN SumOfPowers(vs, 1)
                                         ELSE availableValidators[h]]
                   /\ ~StrictlyIncreasing(vs) => last'.err = "validator not ordered"
                   /\ hash \in DOMAIN availableValidators => last'.err = "already set"
                   /\ last'.err # "ok" => availableValidators' = availableValidators ]_vars

\* a set with a duplicate signer was refused, a registered set untouched
C20_Witness ==
    /\ last.op = "addValidator" /\ last.err = "validator not ordered"
    /\ last.validators = VDuplicate
    /\ DOMAIN availableValidators = {ValidatorHash(V3)}
    /\ availableValidators[ValidatorHash(V3)] = 3

\* ---- C14: the re-entrancy guard (checked under SpecReentry)
Adapters == {"deposit", "depositFor", "withdraw", "withdrawUser", "withdrawFee"}

\* C14 (as stated): while deposit, a withdrawal or withdrawFee is in flight,
\* a nested call of any of the operations that use the transfer adapter
\* (made by a caller with the role the operation asks for, the vault not
\* paused) is rejected by the guard and changes no state.
C14_NestedCallsRejected ==
    [][ ( /\ inFlight.op # "none" /\ inFlight' = inFlight
          /\ last'.op \in Adapters /\ last'.auth /\ ~paused )
            => /\ last'.err = Reentrant
               /\ UNCHANGED << storage, history >> ]_vars

\* ======================================================= claims, C21 - C30
\* ---- C21: a failed quorum check (checked under SpecLimit)
QuorumErrors == {"validator illegal", "validator signature illegal"}

\* C21: a committee-authorized withdrawal that fails the quorum check (set
\* not registered, or not enough power) fails with that error and changes
\* nothing: the id stays unprocessed, and the pause flag, the hour buckets,
\* the fee pools and the custody balances stay as they were, also when its
\* amount would have exceeded the hourly limit.
C21_FailedQuorumNotApplied ==
    [][ /\ \A c \in WithdrawCalls :
              ( /\ ~paused /\ c[6] /\ withdrawHistory[c[1]] = 0
                /\ supportToken[c[3].token].currency # ZeroCurrency
                /\ verifyValidatorSignature(c[2], WithdrawDigest(c[1], c[3]),
                                            SigsOf(c[4], c[1], c[5])) # "ok"
                /\ WithdrawOf(c) )
                 => /\ last'.err \in QuorumErrors
                    /\ withdrawHistory'[c[1]] = 0
                    /\ UNCHANGED << storage, history >>
        /\ (last'.op = "withdraw" /\ last'.err \in QuorumErrors)
              => /\ withdrawHistory'[last'.id] = 0
                 /\ UNCHANGED << storage, history >> ]_vars

\* a withdrawal of 600 USD without the quorum was refused while the hour
\* bucket already held too much for it, and the vault is not paused
C21_Witness ==
    /\ last.op = "withdraw" /\ last.err = "validator signature illegal"
    /\ ~paused /\ withdrawHistory[last.id] = 0
    /\ withdrawPerHours[timestamp \div HOUR] > 0
    /\ withdrawPerHours[timestamp \div HOUR] + 600 > hourlyLimit

\* ---- C22: USD values that round to zero (checked under SpecValue)
\* floor(price * amount * 10^USD_DECIMALS / 10^(priceDecimals + currencyDecimals))
\* for the registered descriptor of USDT and an oracle answer
UsdValue(amount, oraclePrice) ==
    LET t == supportToken["USDT"]
    IN  ((IF t.fixedPrice THEN t.price ELSE oraclePrice) * amount * Pow10(USD_DECIMALS))
            \div Pow10(t.priceDecimals + t.currencyDecimals)

\* the call failed and nothing was admitted, paid or paused
RefusedWhole ==
    /\ last'.err # "ok"
    /\ paused' = paused
    /\ UNCHANGED << storage, history >>

\* C22: a withdrawal (either variant) of a registered currency whose USD
\* value is zero fails and changes nothing: the hour buckets, the custody,
\* the pools, the id and the pause flag stay as they were; when it reaches
\* the limiter (not paused, id unused, descriptor and fee accepted, and for
\* the committee variant the quorum met) its error is ZeroAmount, the code's
\* error for a zero value.
C22_ZeroValueRefused ==
    [][ /\ \A c \in ValueCalls :
              ( /\ supportToken["USDT"].currency # ZeroCurrency
                /\ UsdValue(c[2].amount, c[3]) = 0
                /\ ValueWithdraw(c) )
                 => /\ RefusedWhole
                    /\ ( /\ ~paused /\ withdrawHistory[c[1]] = 0
                         /\ ValidatorHash(V2) \in DOMAIN availableValidators )
                          => last'.err = "ZeroAmount"
        /\ \A c \in ValueUserCalls :
              ( /\ supportToken["USDT"].currency # ZeroCurrency
                /\ UsdValue(c[1].amount, c[3]) = 0
                /\ ValueWithdrawUser(c) )
                 => /\ RefusedWhole
                    /\ ( /\ ~paused /\ withdrawHistory[c[1].withdrawId] = 0
                         /\ supportToken["USDT"].currencyDecimals = c[1].decimals )
                          => last'.err = "ZeroAmount"
        /\ (last'.op \in Withdrawals /\ last'.err = "ok")
              => last'.usd > 0 ]_vars

\* a withdrawal of 6 units of the three-decimal token, worth 0 USD after
\* rounding, was refused with the custody there to pay it and the hour
\* bucket already above the limit
C22_Witness ==
    /\ last.op \in Withdrawals /\ last.err = "ZeroAmount"
    /\ supportToken["USDT"] = AddedToken("USDT", ConfigCoarse)
    /\ custody["USDT"] >= 6 /\ ~paused
    /\ withdrawHistory[last.id] = 0
    /\ withdrawPerHours[timestamp \div HOUR] > hourlyLimit

\* ---- C23: cancellation (checked under SpecLedger)
\* C23: cancelWithdraw by the operator for an unprocessed id succeeds, marks
\* the id processed and pays nothing: every custody balance, every fee pool,
\* every hour bucket and the pause flag stay as they were; for a processed id
\* it fails with AlreadyWithdraw and changes nothing.
C23_CancelPaysNothing ==
    [][ (last'.op = "cancelWithdraw" /\ last'.auth)
            => IF withdrawHistory[last'.id] = 0
               THEN /\ last'.err = "ok"
                    /\ withdrawHistory'[last'.id] = blockNumber
                    /\ \A i \in Ids \ {last'.id} : withdrawHistory'[i] = withdrawHistory[i]
                    /\ UNCHANGED << custody, fees, withdrawPerHours, paused,
                                    payouts, digestPayouts >>
               ELSE /\ last'.err = "AlreadyWithdraw"
                    /\ UNCHANGED << storage, history >> ]_vars

\* an id was cancelled while the vault held custody, a fee pool and volume
\* in the hour bucket, and was paused; no payout was made for it
C23_Witness ==
    /\ last.op = "cancelWithdraw" /\ last.err = "ok"
    /\ withdrawHistory[last.id] # 0 /\ payouts[last.id] = 0
    /\ paused
    /\ custody["USDT"] > 0 /\ fees["USDT"] > 0
    /\ withdrawPerHours[timestamp \div HOUR] > 0

\* ---- C24: deregistration and the fee pool (checked under SpecLedger)
\* C24: removeToken clears the descriptor of the currency and nothing else
\* (the fee pools, the custody and the name hashes stay), and withdrawFee for
\* a deregistered currency whose pool and custody hold the amount pays
\* min(amount, fees[token]) as it does for a registered one.
C24_DeregisterKeepsFees ==
    [][ /\ (last'.op = "removeToken" /\ last'.err = "ok")
              => /\ supportToken' = [supportToken EXCEPT ![last'.action.token] = NoToken]
                 /\ UNCHANGED << fees, custody, tokenHashMap, paused, hourlyLimit,
                                 withdrawHistory, userWithdrawHistory, withdrawPerHours,
                                 availableValidators, history >>
        /\ ( /\ last'.op = "withdrawFee" /\ last'.auth
             /\ supportToken[last'.action.token].currency = ZeroCurrency
             /\ fees[last'.action.token] > 0
             /\ custody[last'.action.token]
                    >= Min(last'.action.amount, fees[last'.action.token]) )
              => LET token == last'.action.token
                     paid == Min(last'.action.amount, fees[token])
                 IN  /\ last'.err = "ok"
                     /\ fees' = [fees EXCEPT ![token] = @ - paid]
                     /\ custody' = [custody EXCEPT ![token] = @ - paid] ]_vars

\* the fees of two withdrawals were collected in full after the currency
\* had been deregistered
C24_Witness ==
    /\ last.op = "withdrawFee" /\ last.err = "ok" /\ last.action.token = "USDT"
    /\ supportToken["USDT"] = NoToken
    /\ feesAccrued["USDT"] = 4 /\ feesCollected["USDT"] = 4 /\ fees["USDT"] = 0

\* ---- C25, C26: the cursor of the verifier (checked under SpecVerify)
\* the place of an address in a set, 0 when it is not in it
PositionOf(validators, a) ==
    IF \E k \in 1 .. Len(validators) : validators[k].signer = a
    THEN CHOOSE k \in 1 .. Len(validators) :
            /\ validators[k].signer = a
            /\ \A j \in 1 .. k - 1 : validators[j].signer # a
    ELSE 0

\* the power a list contributes from its k-th signature on when only a
\* signer placed after the cursor counts; a signer that is not after the
\* cursor uses the cursor up
RECURSIVE ForwardPower(_, _, _, _)
ForwardPower(validators, sigs, k, cursor) ==
    IF k > Len(sigs) THEN 0
    ELSE LET a == Recover(toEthSignedMessageHash(VerifyDigest), sigs[k])
             p == PositionOf(validators, a)
         IN  IF p > cursor
             THEN validators[p].power + ForwardPower(validators, sigs, k + 1, p)
             ELSE ForwardPower(validators, sigs, k + 1, Len(validators))

\* C25: the verifier counts a signature only when its signer is placed after
\* the validator matched by the signatures before it: the power it
\* accumulates is the power of that forward walk, so the signatures of
\* validators 2 and 1 of three equal ones, given in this order, fail with
\* "validator signature illegal" although the two hold 2/3 of the power.
C25_ForwardCursorOnly ==
    /\ \A vs \in Registered, sigs \in SigLists :
          LET matched == MatchedPower(vs, toEthSignedMessageHash(VerifyDigest), sigs, 0, 0, 0)
          IN  matched.err = "ok" => matched.power = ForwardPower(vs, sigs, 1, 0)
    /\ V3 \in Registered
          => /\ verifyValidatorSignature(V3, VerifyDigest, VerifySigs(<< 2, 1 >>))
                   = "validator signature illegal"
             /\ verifyValidatorSignature(V3, VerifyDigest, VerifySigs(<< 1, 2 >>)) = "ok"
             /\ 3 * CoveredPower(V3, VerifySigs(<< 2, 1 >>), 1) >= 2 * availableValidators[V3]

\* the signatures of validators 2 and 1, in this order, were refused
C25_Witness ==
    /\ last.op = "verifyValidatorSignature" /\ last.err = "validator signature illegal"
    /\ last.validators = V3 /\ V3 \in Registered
    /\ last.sigs = VerifySigs(<< 2, 1 >>)
    /\ CoveredPower(V3, last.sigs, 1) >= Threshold(availableValidators[V3])

WellFormed(sig) == sig # Malformed

\* C26 (as stated): a malformed signature is skipped, not an error (a list
\* verifies as it does without its malformed signatures), and for every
\* list, repeated and malformed signatures included, the power accumulated
\* exceeds neither the power of the distinct validators that signed nor the
\* total power of the set.
C26_MalformedSkippedPowerBounded ==
    \A vs \in Registered, sigs \in SigLists :
        LET matched == MatchedPower(vs, toEthSignedMessageHash(VerifyDigest), sigs, 0, 0, 0)
        IN  /\ verifyValidatorSignature(vs, VerifyDigest, sigs)
                 = verifyValidatorSignature(vs, VerifyDigest, SelectSeq(sigs, WellFormed))
            /\ matched.power <= CoveredPower(vs, sigs, 1)
            /\ matched.power <= availableValidators[vs]

\* ---- C27: the hour buckets (checked under Spec)
\* C27: no operation decreases an hour bucket; a step changes at most the
\* bucket of the current hour, floor(timestamp / 3600), and only a withdrawal
\* that is paid out does, by its USD value; the buckets of the hours the
\* clock has passed stay as they are.
C27_BucketsMonotone ==
    [][ /\ \A b \in Buckets :
              /\ withdrawPerHours'[b] >= withdrawPerHours[b]
              /\ b # timestamp \div HOUR => withdrawPerHours'[b] = withdrawPerHours[b]
              /\ b < timestamp' \div HOUR => withdrawPerHours'[b] = withdrawPerHours[b]
        /\ withdrawPerHours' # withdrawPerHours
              => /\ last'.op \in Withdrawals /\ last'.err = "ok" /\ ~last'.deferred
                 /\ timestamp' = timestamp
                 /\ withdrawPerHours'[timestamp \div HOUR]
                       = withdrawPerHours[timestamp \div HOUR] + last'.usd
                 /\ last'.usd > 0 ]_vars

\* a withdrawal was paid in a later hour: its value went to the bucket of
\* that hour and the bucket of the deployment hour kept its 600
C27_Witness ==
    /\ last.op \in Withdrawals /\ last.err = "ok" /\ ~last.deferred
    /\ timestamp \div HOUR > DeployTime \div HOUR
    /\ withdrawPerHours[DeployTime \div HOUR] = 600
    /\ withdrawPerHours[timestamp \div HOUR] = last.usd /\ last.usd > 0
    /\ payouts[1] + payouts[2] = 2

\* ---- C28: the fee pools (checked under SpecLedger)
\* C28: in every state the pool of a currency is the sum of the fees of the
\* withdrawals of that currency that were paid out, less the sum of the
\* amounts withdrawFee pushed; a step raises a pool only when it is a paid
\* withdrawal of that currency (by its fee) and lowers it only when it is a
\* successful withdrawFee: deposits, cancellations, deferred withdrawals and
\* the registry operations leave every pool as it was.
C28_PoolIsFeesLessCollected ==
    /\ [](\A c \in Tokens :
            /\ fees[c] = feesAccrued[c] - feesCollected[c]
            /\ fees[c] >= 0)
    /\ [][ \A c \in Tokens :
             /\ fees'[c] > fees[c]
                   => /\ last'.op \in Withdrawals /\ last'.err = "ok" /\ ~last'.deferred
                      /\ last'.action.token = c
                      /\ fees'[c] = fees[c] + last'.action.fee
                      /\ payouts'[last'.id] = payouts[last'.id] + 1
             /\ fees'[c] < fees[c]
                   => /\ last'.op = "withdrawFee" /\ last'.err = "ok"
                      /\ fees[c] - fees'[c] = custody[c] - custody'[c]
             /\ ( \/ last'.op \notin (Withdrawals \cup {"withdrawFee"})
                  \/ last'.err # "ok"
                  \/ last'.deferred ) => fees'[c] = fees[c] ]_vars

\* two withdrawals with a fee of 2 were paid and 3 collected: the pool holds 1
C28_Witness ==
    /\ feesAccrued["USDT"] = 4 /\ feesCollected["USDT"] = 3 /\ fees["USDT"] = 1
    /\ payouts[1] = 1 /\ payouts[2] = 1
    /\ last.op = "withdrawFee" /\ last.err = "ok"

\* ---- C29: a push the custody cannot cover (checked under SpecLedger)
\* the withdrawal of LedgerAction with the id passes every check before the
\* push: not paused, id unused, currency registered, quorum registered, a
\* limit the value of 400 fits in
ReachesPush(id) ==
    /\ ~paused /\ withdrawHistory[id] = 0
    /\ supportToken["USDT"].currency # ZeroCurrency
    /\ ValidatorHash(V2) \in DOMAIN availableValidators
    /\ withdrawPerHours[timestamp \div HOUR] + 400 <= hourlyLimit

\* the same for the user-co-signed variant: also the name hash registered
\* and the user digest unused
ReachesPushUser(id) ==
    /\ ReachesPush(id)
    /\ tokenHashMap["USDT"] = NameHash(TokenName)
    /\ userWithdrawHistory["d1"] = 0

\* C29: a withdrawal (either variant) whose push of amount - fee the custody
\* cannot cover fails and commits nothing: the id stays unprocessed and the
\* user digest unused, no pool is credited, no hour bucket raised, the pause
\* flag stays; the same request made when the custody covers the push, the
\* checks before the push passing as before, is paid.
C29_FailedPushCommitsNothing ==
    [][ /\ (last'.op \in Withdrawals /\ last'.err = "InsufficientBalance")
              => /\ withdrawHistory'[last'.id] = 0
                 /\ UNCHANGED << storage, history >>
        /\ \A id \in Ids :
              /\ (ReachesPush(id) /\ LedgerWithdraw(id))
                    => IF custody["USDT"] < LedgerAction.amount - LedgerAction.fee
                       THEN last'.err = "InsufficientBalance"
                       ELSE /\ last'.err = "ok" /\ ~last'.deferred
                            /\ withdrawHistory'[id] = blockNumber
                            /\ custody'["USDT"] = custody["USDT"] - 2
              /\ (ReachesPushUser(id) /\ LedgerWithdrawUser(id))
                    => IF custody["USDT"] < LedgerAction.amount - LedgerAction.fee
                       THEN /\ last'.err = "InsufficientBalance"
                            /\ userWithdrawHistory'["d1"] = 0
                       ELSE /\ last'.err = "ok" /\ ~last'.deferred
                            /\ withdrawHistory'[id] = blockNumber
                            /\ userWithdrawHistory'["d1"] = blockNumber
                            /\ custody'["USDT"] = custody["USDT"] - 2 ]_vars

\* after a payout that left 1 in the custody, a fee of 2 in the pool and 400
\* in the hour bucket, a second withdrawal was refused at the push and left
\* all of them as they were
C29_Witness ==
    /\ last.op \in Withdrawals /\ last.err = "InsufficientBalance"
    /\ withdrawHistory[last.id] = 0 /\ payouts[last.id] = 0 /\ ~paused
    /\ custody["USDT"] = 1 /\ fees["USDT"] = 2
    /\ withdrawPerHours[timestamp \div HOUR] = 400

\* ---- C30: what the signatures are made over (checked under SpecVerify)
\* the validators of the set whose signature over the digest of (id, action)
\* is in the list
SignedBy(validators, sigs, id, action) ==
    {v \in 1 .. Len(validators) :
        \E k \in 1 .. Len(sigs) :
            /\ sigs[k].signer = validators[v].signer
            /\ sigs[k].signed = toEthSignedMessageHash(WithdrawDigest(id, action))}

\* C30 (as stated): every payout of a committee-authorized withdrawal is of
\* the tuple (id, token, amount, fee, receiver) validators of the set signed:
\* signatures made over another id, token, amount, fee or receiver never let
\* it succeed.
C30_PayoutIsSignedTuple ==
    (last.op = "withdraw" /\ last.err = "ok" /\ ~last.deferred)
        => SignedBy(last.validators, last.sigs, last.id, last.action) # {}

\* ======================================================= claims, C31 - C38
\* ---- C31: the fee of a user-co-signed withdrawal (checked under Spec)
\* the call passes every check made before the fee is compared: not paused,
\* operator, id unused, currency registered with the decimals and the name
\* hash of the request
ReachesFeeCheck(c) ==
    /\ ~paused /\ c[5]
    /\ IdUnused(c[3].withdrawId)
    /\ TokenOf(c[1]).currency # ZeroCurrency
    /\ TokenOf(c[1]).currencyDecimals = c[3].decimals
    /\ tokenHashMap[c[1]] = c[3].tokenNameHash

\* C31: every payout of the user-co-signed withdrawal accrues a fee no larger
\* than the fee declared in the user's request; a call whose realized fee
\* exceeds the declared fee and that passes the checks made before the
\* comparison fails with FeeExceeds whatever the rate limiter would have
\* answered, and changes nothing: no pause, no volume, no replay marker, no
\* fee and no payout.
C31_FeeWithinDeclared ==
    /\ []( (last.op = "withdrawUser" /\ last.err = "ok" /\ ~last.deferred)
              => last.action.fee <= last.maxFee )
    /\ [][ \A c \in UserCalls :
             ( /\ c[2] > c[3].fee
               /\ ReachesFeeCheck(c)
               /\ withdrawUser(c[1], c[2], c[3], c[4], c[5], 1) )
             => /\ last'.err = "FeeExceeds"
                /\ UNCHANGED << storage, history >> ]_vars

\* a fee of 2 against a declared fee of 0 was refused while the limit in
\* force was below the value of the request (the limiter would have paused)
C31_Witness ==
    /\ last.op = "withdrawUser" /\ last.err = "FeeExceeds" /\ last.id = 1
    /\ ~paused /\ IdUnused(1)
    /\ supportCurrency("USDT")
    /\ hourlyLimit < amountUsd("USDT", 6, 1)

\* ---- C33: custody and the fee pools (checked under SpecLedger)
\* C33: in every state the vault holds, of every currency, at least the
\* balance of the currency's fee pool, so the accrued fees can be collected
\* in full.
C33_CustodyCoversFees ==
    \A c \in Tokens : custody[c] >= fees[c]

\* ---- C34: a payout needs a signature of a member (checked under SpecVerify)
\* the validators of the set that an address recovered from the list, for
\* the digest, belongs to
MembersRecovered(validators, digest, sigs) ==
    {v \in 1 .. Len(validators) :
        \E k \in 1 .. Len(sigs) :
            /\ ~RecoverReverts(sigs[k])
            /\ Recover(toEthSignedMessageHash(digest), sigs[k]) = validators[v].signer}

\* C34: for every registered set, a signature list none of whose signatures
\* recovers to a validator of the set (the empty list among them) fails
\* verification, and no committee-authorized withdrawal pays out on such a
\* list.
C34_PayoutNeedsMember ==
    /\ \A vs \in RegistrySets, sigs \in SigLists :
          ( /\ ValidatorHash(vs) \in Registered
            /\ MembersRecovered(vs, VerifyDigest, sigs) = {} )
          => verifyValidatorSignature(vs, VerifyDigest, sigs) # "ok"
    /\ (last.op = "withdraw" /\ last.err = "ok" /\ ~last.deferred)
          => MembersRecovered(last.validators, WithdrawDigest(last.id, last.action),
                              last.sigs) # {}

\* ---- C35: the bucket against the limit in force (checked under SpecLimit)
\* C35 (as stated): in every state the volume of the current hour bucket
\* does not exceed hourlyLimit.
C35_BucketWithinLimit ==
    withdrawPerHours[cursorOf(timestamp)] <= hourlyLimit

\* C35 (amended): no withdrawal is admitted that takes the bucket above the
\* limit in force: a step that adds volume adds it to the current bucket
\* only and leaves that bucket within hourlyLimit; before the first
\* updateHourlyLimit (limit 0) every bucket is empty. The current bucket
\* comes to exceed the limit by one step only: an updateHourlyLimit that
\* lowers the limit below the volume already admitted.
C35_AdmittedWithinLimit ==
    /\ [](hourlyLimit = 0 => \A b \in Buckets : withdrawPerHours[b] = 0)
    /\ [][ /\ \A b \in Buckets :
                withdrawPerHours'[b] # withdrawPerHours[b]
                   => /\ b = cursorOf(timestamp)
                      /\ last'.op \in Withdrawals /\ last'.err = "ok" /\ ~last'.deferred
                      /\ withdrawPerHours'[b] = withdrawPerHours[b] + last'.usd
                      /\ withdrawPerHours'[b] <= hourlyLimit
                      /\ hourlyLimit' = hourlyLimit
           /\ ( /\ withdrawPerHours'[cursorOf(timestamp')] > hourlyLimit'
                /\ withdrawPerHours[cursorOf(timestamp)] <= hourlyLimit )
                => /\ last'.op = "updateHourlyLimit" /\ last'.err = "ok"
                   /\ hourlyLimit' < hourlyLimit
                   /\ withdrawPerHours' = withdrawPerHours ]_vars

\* 600 were admitted under a limit of 1000, then the limit was lowered to 500
C35_Witness ==
    /\ last.op = "updateHourlyLimit" /\ last.err = "ok"
    /\ hourlyLimit = 500
    /\ withdrawPerHours[cursorOf(timestamp)] = 600
    /\ payouts[1] + payouts[2] = 1

\* ---- C36: a fee larger than the amount (checked under SpecLedger)
\* C36: a withdrawal of either variant whose fee exceeds its amount never
\* pays anything and leaves the id unprocessed and the fee pools, the hour
\* buckets and the pause flag as they were before the call.
C36_OverdrawnChangesNothing ==
    [][ \A id \in Ids :
          LedgerOverdrawn(id)
             => /\ ~(last'.err = "ok" /\ ~last'.deferred)
                /\ payouts' = payouts /\ custody' = custody
                /\ withdrawHistory' = withdrawHistory
                /\ fees' = fees
                /\ withdrawPerHours' = withdrawPerHours
                /\ paused' = paused ]_vars

\* the value of OverdrawnAction fits in the current bucket
OverdrawnAdmitted ==
    ~LimitExceeded(amountUsd("USDT", OverdrawnAction.amount, 1))

\* C36 (amended): a withdrawal of either variant whose fee exceeds its amount
\* never pays anything and leaves the id unprocessed, the user digest
\* unused and the fee pools, the custody and the hour buckets as they were.
\* The pause flag changes only when the rate limiter, which runs before the
\* subtraction, defers the request: its value does not fit in the bucket,
\* the call returns without error and the vault is paused. A request that
\* passes every check before the push aborts at amount - fee with an
\* arithmetic panic.
C36_OverdrawnNeverPays ==
    [][ \A id \in Ids :
          LedgerOverdrawn(id)
             => /\ ~(last'.err = "ok" /\ ~last'.deferred)
                /\ payouts' = payouts /\ custody' = custody
                /\ withdrawHistory' = withdrawHistory
                /\ userWithdrawHistory' = userWithdrawHistory
                /\ fees' = fees
                /\ withdrawPerHours' = withdrawPerHours
                /\ paused' # paused
                      => /\ paused' /\ last'.err = "ok" /\ last'.deferred
                         /\ ~OverdrawnAdmitted
                /\ ( /\ ~paused /\ IdUnused(id) /\ supportCurrency("USDT")
                     /\ OverdrawnAdmitted
                     /\ last'.op = "withdraw" => ValidatorHash(V2) \in Registered
                     /\ last'.op = "withdrawUser"
                           => /\ tokenHashMap["USDT"] = NameHash(TokenName)
                              /\ DigestUnused("d1") )
                      => last'.err = "Panic(0x11)" ]_vars

\* a request of amount 1 and fee 2 was refused at the subtraction while the
\* custody held enough to pay it and the limit left room for it
C36_Witness ==
    /\ last.op \in Withdrawals /\ last.err = "Panic(0x11)"
    /\ withdrawHistory[last.id] = 0 /\ payouts[last.id] = 0 /\ ~paused
    /\ custody["USDT"] = 3 /\ fees["USDT"] = 0
    /\ OverdrawnAdmitted /\ hourlyLimit > 0

\* ---- C37: what a successful addValidator leaves (checked under SpecRegistry)
\* C37: right after an addValidator that returned without error the set's
\* hash maps to a non-zero total power: a second addValidator of the same
\* set would fail with "already set" and a removeValidator of it would
\* succeed; the empty set and the sets whose powers are all zero included.
C37_AddedSetIsRegistered ==
    (last.op = "addValidator" /\ last.err = "ok")
        => /\ PowerOf(ValidatorHash(last.validators)) # 0
           /\ ValidatorHash(last.validators) \in Registered

\* ---- C32: the order of asterdeposit.ts (checked under SpecClient)
\* the transaction this step sends, if it sends one
Sends(tx) == client'.sent = Append(client.sent, tx)
SendsAny == Len(client'.sent) > Len(client.sent)
PullTx == Tx("aggregate3", "Wallet1", DEPOSIT_AMOUNT)
DepositTx == Tx("deposit", "vault", DEPOSIT_AMOUNT)
Approvals(c) == {c.sent[k] : k \in {j \in 1 .. Len(c.sent) : c.sent[j].call = "approve"}}

\* C32: in asterdeposit.ts the pull of Tx 1 is sent only when the allowances
\* Wallet1 -> Multicall3 and Wallet2 -> vault both cover the amount, every
\* approval the script sent being confirmed; the deposit of Tx 2 is sent
\* only after Tx 1 is confirmed; an approval is sent only when the allowance
\* it sets is below the amount. A run that ends normally has sent Tx 1 and
\* then Tx 2, last, and both are confirmed.
C32_MulticallOrder ==
    /\ [][ client.script = "asterdeposit.ts"
             => /\ Sends(PullTx)
                   => /\ client.slots["Wallet1>Multicall3"] >= DEPOSIT_AMOUNT
                      /\ client.slots["Wallet2>Vault"] >= DEPOSIT_AMOUNT
                      /\ Approvals(client) \subseteq client.confirmed
                      /\ PullTx \in client.simulated
                /\ Sends(DepositTx) => PullTx \in client.confirmed
                /\ SendsAny
                   => LET tx == client'.sent[Len(client'.sent)]
                      IN  /\ tx.call \in {"approve", "aggregate3", "deposit"}
                          /\ tx.call = "approve"
                                => client.slots[tx.slot] < DEPOSIT_AMOUNT ]_vars
    /\ []( (client.script = "asterdeposit.ts" /\ client.outcome = "done")
              => /\ Len(client.sent) >= 2
                 /\ SubSeq(client.sent, Len(client.sent) - 1, Len(client.sent))
                       = << PullTx, DepositTx >>
                 /\ {PullTx, DepositTx} \subseteq client.confirmed )

\* both allowances were one unit short: two approvals, the pull, the
\* deposit, all confirmed
C32_Witness ==
    /\ client.script = "asterdeposit.ts" /\ client.outcome = "done"
    /\ client.sent = << Tx("approve", "Wallet1>Multicall3", MaxUint256),
                        Tx("approve", "Wallet2>Vault", MaxUint256),
                        PullTx, DepositTx >>
    /\ client.slots["Wallet1>Multicall3"] = MaxUint256
    /\ client.slots["Wallet2>Vault"] = MaxUint256

\* ---- C38: simulate, then send (checked under SpecClient)
DepositCalls == {"deposit", "depositFor"}
Sent(c) == {c.sent[k] : k \in 1 .. Len(c.sent)}

\* C38: in each of the deposit scripts the deposit / depositFor transaction
\* is sent only in the step after the static call of the same call passed;
\* when that simulation fails the script reports the decoded error and ends
\* (it returns, or rethrows to main().catch) with the transaction unsent, and
\* a script that has ended sends nothing more.
C38_SimulatedBeforeSent ==
    /\ [][ /\ \A tx \in Sent(client') \ Sent(client) :
                tx.call \in DepositCalls
                   => /\ tx \in client.simulated
                      /\ client.pc > 1
                      /\ main(client.script)[client.pc - 1]
                            = Instr("staticCall", tx, main(client.script)[client.pc - 1].alt, 0)
           /\ ( /\ Running /\ Current.op = "staticCall"
                /\ Current.arg.call \in DepositCalls
                /\ Current.arg \notin client'.simulated )
                => /\ Current.arg \in client'.reported
                   /\ client'.outcome \in {"returned", "thrown"}
                   /\ client'.sent = client.sent ]_vars
    /\ [](\A tx \in client.reported :
             /\ client.outcome \in {"returned", "thrown"}
             /\ tx.call \in DepositCalls => tx \notin Sent(client))
    /\ [](client.outcome # "running" => ~ENABLED NextClient)

\* deposit.ts approved, then the simulation of the deposit failed: the error
\* was reported and the script returned with the approval only sent
C38_Witness ==
    /\ client.script = "deposit.ts" /\ client.outcome = "returned"
    /\ client.reported = {DepositTx}
    /\ client.sent = << Tx("approve", "Wallet>Vault", DEPOSIT_AMOUNT) >>
    /\ client.confirmed = {Tx("approve", "Wallet>Vault", DEPOSIT_AMOUNT)}

====
